---------------------------- MODULE Spec2Model ----------------------------
(***************************************************************************)
(* Traffic Crashes API (FastAPI + SQLAlchemy over PostgreSQL).             *)
(*                                                                         *)
(* The model holds the committed content of the relational store and, for  *)
(* every request in flight, the position of its handler and what its       *)
(* session has read so far.  A handler reads the committed store in one or *)
(* more steps (READ COMMITTED: every statement sees what is committed when *)
(* it runs) and then flushes.  A flush is followed at once by the commit   *)
(* of the request's transaction, and a statement that conflicts with an    *)
(* uncommitted row waits for that row's transaction to end, so flush and   *)
(* commit are one step taken against the committed store.                  *)
(*                                                                         *)
(* Optional values are <<>> (None / NULL) or <<v>>.  Strings are sequences *)
(* of one-character strings.  Coordinates are integers: request values in  *)
(* units of 1e-7 degree, stored values (Numeric(9,6)) in units of 1e-6.    *)
(***************************************************************************)
EXTENDS Integers, Sequences, FiniteSets, TLC

VARIABLES
    crashes,    \* table crashes: set of rows
    vehicle,    \* table vehicle: set of rows
    people,     \* table people: set of rows
    sat,        \* the eight 1:1 satellite tables: table name -> set of rows
    pc,         \* per request slot: the handler's position
    req,        \* per request slot: the session's state (what it read, what it will write)
    last,       \* the response the step just taken returned, if it returned one
    issued      \* history: highest person number / vehicle_id ever committed

vars == <<crashes, vehicle, people, sat, pc, req, last, issued>>

\* Two requests in flight are enough for every pairwise race of the handlers.
Proc == {"r1", "r2"}

None == <<>>
Some(v) == <<v>>
IsNone(o) == o = <<>>
Val(o) == o[1]

Abs(n) == IF n < 0 THEN -n ELSE n
Max(S) == CHOOSE x \in S : \A y \in S : y <= x

-----------------------------------------------------------------------------
(* Python string formatting                                                *)

DigitChar(d) ==
    CASE d = 0 -> "0" [] d = 1 -> "1" [] d = 2 -> "2" [] d = 3 -> "3"
      [] d = 4 -> "4" [] d = 5 -> "5" [] d = 6 -> "6" [] d = 7 -> "7"
      [] d = 8 -> "8" [] d = 9 -> "9"

DigitChars == {"0", "1", "2", "3", "4", "5", "6", "7", "8", "9"}

DigitVal(c) == CHOOSE d \in 0..9 : DigitChar(d) = c

\* str(n) for n >= 0
RECURSIVE Digits(_)
Digits(n) == IF n < 10 THEN <<DigitChar(n)>>
             ELSE Digits(n \div 10) \o <<DigitChar(n % 10)>>

\* f"{n:0{w}d}" for n >= 0: at least w digits, zero-padded on the left
ZeroPad(n, w) ==
    LET s == Digits(n)
    IN  IF Len(s) >= w THEN s ELSE [i \in 1..(w - Len(s)) |-> "0"] \o s

\* f"{n}" for an int
IntStr(n) == IF n < 0 THEN <<"-">> \o Digits(-n) ELSE Digits(n)

\* int(s) for a string of digits
RECURSIVE ParseNat(_)
ParseNat(s) == IF Len(s) = 0 THEN 0
               ELSE 10 * ParseNat(SubSeq(s, 1, Len(s) - 1)) + DigitVal(s[Len(s)])

\* 10 ** decimals, decimals = 6
factor == 1000000

\* f"{x:.6f}" of a value with at most 6 decimals, given in units of 1e-6
Fixed6(m) ==
    (IF m < 0 THEN <<"-">> ELSE <<>>)
        \o Digits(Abs(m) \div factor) \o <<".">> \o ZeroPad(Abs(m) % factor, 6)

\* incident_date.strftime("%Y-%m-%d %H:%M:%S"): a datetime is [sec, usec], sec the
\* second within the minute 2024-01-15 14:30; the sub-second part is dropped.
strftime(d) == <<"2024-01-15 14:30:">> \o ZeroPad(d.sec, 2)

\* a datetime parsed from a timestamp that carries a UTC offset has a tzinfo
Aware(d) == "tz" \in DOMAIN d

\* a > b on datetimes
Later(a, b) == a.sec > b.sec \/ (a.sec = b.sec /\ a.usec > b.usec)

-----------------------------------------------------------------------------
(* util/id_generators.py                                                   *)

\* SHA-512 is not computed: the digest is represented by its preimage, so two
\* digests are equal exactly when the hashed strings are equal.
sha512(s) == <<"sha512:">> \o s

generate_crash_record_id(incident_date, latitude, longitude, street_no, street_name) ==
    LET date_str == strftime(incident_date)
        lat_str == Fixed6(latitude)
        lon_str == Fixed6(longitude)
        components == date_str \o lat_str \o lon_str \o IntStr(street_no) \o street_name
    IN  sha512(components)

\* IEEE 754 binary64, as Python's float: a positive double is
\* [m |-> its 53 significand bits, most significant first, frac |-> f], the
\* number m / 2^f.  Numbers in progress are sequences of bits, or of digits
\* in base 128 (7 bits), most significant first.

\* the bits of a sequence of base-128 digits
Flatten(digits) ==
    [j \in 1..(7 * Len(digits)) |->
        (digits[((j - 1) \div 7) + 1] \div (2 ^ (6 - ((j - 1) % 7)))) % 2]

\* the base-128 digits of a sequence of bits
Chunks(bits) ==
    LET n == (Len(bits) + 6) \div 7
        pad == 7 * n - Len(bits)
        b(i) == IF i <= pad THEN 0 ELSE bits[i - pad]
    IN  [k \in 1..n |-> 64 * b(7 * k - 6) + 32 * b(7 * k - 5) + 16 * b(7 * k - 4)
                          + 8 * b(7 * k - 3) + 4 * b(7 * k - 2) + 2 * b(7 * k - 1)
                          + b(7 * k)]

\* round to nearest, ties to even: the 53 bits from the first 1 of bits, whose
\* binary point follows bit number point; sticky says a nonzero part lies
\* beyond the bits given
Round53(bits, point, sticky) ==
    LET p == CHOOSE i \in 1..Len(bits) : bits[i] = 1 /\ \A j \in 1..(i - 1) : bits[j] = 0
        m == [i \in 1..53 |-> IF p + i - 1 <= Len(bits) THEN bits[p + i - 1] ELSE 0]
        half == p + 53 <= Len(bits) /\ bits[p + 53] = 1
        more == sticky \/ \E j \in (p + 54)..Len(bits) : bits[j] = 1
        frac == p + 52 - point
    IN  IF ~(half /\ (more \/ m[53] = 1)) THEN [m |-> m, frac |-> frac]
        ELSE IF \A i \in 1..53 : m[i] = 1
        THEN [m |-> [i \in 1..53 |-> IF i = 1 THEN 1 ELSE 0], frac |-> frac - 1]
        ELSE LET z == CHOOSE i \in 1..53 : m[i] = 0 /\ \A j \in (i + 1)..53 : m[j] = 1
             IN  [m |-> [i \in 1..53 |-> IF i < z THEN m[i] ELSE IF i = z THEN 1 ELSE 0],
                  frac |-> frac]

\* n base-128 digits of the fraction r / d, r < d, and the remainder after them
RECURSIVE Fraction(_, _, _)
Fraction(r, d, n) ==
    IF n = 0 THEN [digits |-> <<>>, r |-> r]
    ELSE LET f == Fraction((r * 128) % d, d, n - 1)
         IN  [digits |-> <<(r * 128) \div d>> \o f.digits, r |-> f.r]

\* float(n / d) for naturals 0 < n < 2^14 * d, d < 2^24: the value of the
\* decimal literal
Quotient(n, d) ==
    LET f == Fraction(n % d, d, 13)
    IN  Round53(Flatten(<<(n \div d) \div 128, (n \div d) % 128>> \o f.digits),
                14, f.r > 0)

\* the digits of digits * c + carry, for a natural c < 2^24
RECURSIVE Times(_, _, _)
Times(digits, c, carry) ==
    IF Len(digits) = 0
    THEN IF carry = 0 THEN <<>> ELSE Append(Times(digits, c, carry \div 128), carry % 128)
    ELSE LET t == digits[Len(digits)] * c + carry
         IN  Append(Times(SubSeq(digits, 1, Len(digits) - 1), c, t \div 128), t % 128)

\* x * c for a double x and a natural c that is a double: the exact product,
\* rounded
Multiply(x, c) ==
    LET p == Flatten(Times(Chunks(x.m), c, 0))
    IN  Round53(p, Len(p) - x.frac, FALSE)

\* the number a sequence of digits denotes
RECURSIVE Value(_)
Value(digits) ==
    IF Len(digits) = 0 THEN 0
    ELSE 128 * Value(SubSeq(digits, 1, Len(digits) - 1)) + digits[Len(digits)]

\* int(x) for a positive double x below 2^31
IntPart(x) ==
    IF x.frac >= 53 THEN 0 ELSE Value(Chunks(SubSeq(x.m, 1, 53 - x.frac)))


\* int(x * factor) / factor for the float x that the decimal x / 10^7 denotes:
\* int() drops the fraction toward zero, and the quotient, the double nearest
\* to a decimal of 6 places, is stored and formatted as that decimal.  x is in
\* units of 1e-7, the result in units of 1e-6.
TruncateOne(x) ==
    IF x = 0 THEN 0
    ELSE IF x < 0 THEN -IntPart(Multiply(Quotient(-x, 10 * factor), factor))
    ELSE IntPart(Multiply(Quotient(x, 10 * factor), factor))

\* the latitudes and longitudes that requests carry, and the coordinates
\* truncate_coordinates returns for them, read back as floats
Latitudes == {0, 418781000, 418781009, 668918713, -321757543, 900000000, -5,
              -900000000, 668918710}
Longitudes == {-876298009, 12345678, 1800000000, -1800000000}
Coordinates ==
    LET given == Latitudes \cup Longitudes
    IN  given \cup {10 * TruncateOne(x) : x \in given}

\* TruncateOne of every coordinate, computed once
Truncations == {<<x, TruncateOne(x)>> : x \in Coordinates}

truncate_coordinates(latitude, longitude) ==
    <<(CHOOSE t \in Truncations : t[1] = latitude)[2],
      (CHOOSE t \in Truncations : t[1] = longitude)[2]>>


\* generate_person_id's f"Q{next_num:07d}"
PersonIdOf(n) == <<"Q">> \o ZeroPad(n, 7)

\* the WHERE clause left out: every key is cast
MatchesAnyKey(s) == TRUE

\* person_id ~ '^Q[0-9]{7}$'
MatchesQ7(s) == /\ Len(s) = 8
                /\ s[1] = "Q"
                /\ \A i \in 2..8 : s[i] \in DigitChars

\* CAST(SUBSTRING(person_id FROM 2) AS INTEGER)
PersonNum(s) == ParseNat(SubSeq(s, 2, Len(s)))

-----------------------------------------------------------------------------
(* db/entities: tables, primary keys, foreign keys                         *)

CrashSatTables == {"crash_date", "crash_circumstances", "crash_injuries",
                   "crash_classification"}
VehicleSatTables == {"vehicle_specs", "vehicle_maneuvers", "vehicle_violations"}
PeopleSatTables == {"driver_info"}
SatTables == CrashSatTables \cup VehicleSatTables \cup PeopleSatTables

\* the table a satellite's key column references
SatParent(t) == IF t \in CrashSatTables THEN "crashes"
                ELSE IF t \in VehicleSatTables THEN "vehicle" ELSE "people"

\* ForeignKey(..., ondelete="CASCADE") on the satellite's key column
SatOnDeleteCascade(t) == t \in {"crash_date", "crash_classification", "driver_info"}

\* vehicle.crash_record_id: ForeignKey(..., ondelete="CASCADE")
VehicleOnDeleteCascade == TRUE

CrashIds == {r.crash_record_id : r \in crashes}
VehicleIds == {r.vehicle_id : r \in vehicle}
PersonIds == {r.person_id : r \in people}
SatKeys(t) == {r.key : r \in sat[t]}

ParentIds(t) == IF SatParent(t) = "crashes" THEN CrashIds
                ELSE IF SatParent(t) = "vehicle" THEN VehicleIds ELSE PersonIds

\* primary_key=True: an INSERT of a key the table holds raises IntegrityError
CrashPKTaken(id) == id \in CrashIds
VehiclePKTaken(id) == id \in VehicleIds
\* people.person_id declared without primary_key: the INSERT is never refused
PeoplePKNotDeclared(id) == FALSE
PeoplePKTaken(id) == id \in PersonIds
\* a satellite key column declared without primary_key
SatPKNotDeclared(t, k) == FALSE
SatPKTaken(t, k) == k \in SatKeys(t)

\* ForeignKey columns: a written non-null reference must name a row of the parent
VehicleFKBroken(row) == row.crash_record_id \notin CrashIds
PeopleFKBroken(row) ==
    \/ (~IsNone(row.crash_record_id) /\ Val(row.crash_record_id) \notin CrashIds)
    \/ (~IsNone(row.vehicle_id) /\ Val(row.vehicle_id) \notin VehicleIds)
\* a satellite key column declared without ForeignKey: any key is accepted
SatFKNotDeclared(t, k) == FALSE
SatFKBroken(t, k) == k \notin ParentIds(t)

TotalRows == Cardinality(crashes) + Cardinality(vehicle) + Cardinality(people)
             + Cardinality(sat["crash_date"]) + Cardinality(sat["crash_circumstances"])
             + Cardinality(sat["crash_injuries"]) + Cardinality(sat["crash_classification"])
             + Cardinality(sat["vehicle_specs"]) + Cardinality(sat["vehicle_maneuvers"])
             + Cardinality(sat["vehicle_violations"]) + Cardinality(sat["driver_info"])

-----------------------------------------------------------------------------
(* util/validators.py                                                      *)

\* coordinates in units of 1e-7 degree
validate_coordinates(latitude, longitude) ==
    /\ -900000000 <= latitude /\ latitude <= 900000000
    /\ -1800000000 <= longitude /\ longitude <= 1800000000

\* value is an optional number
validate_non_negative(value) == IsNone(value) \/ Val(value) >= 0

\* date is an optional datetime
validate_date_not_future(date, now) == IsNone(date) \/ ~Later(Val(date), now)

\* the bounds taken as not in the range
validate_age_exclusive(age) == IsNone(age) \/ (Val(age) > 0 /\ Val(age) < 120)

validate_age(age) == IsNone(age) \/ (Val(age) >= 0 /\ Val(age) <= 120)

validate_vehicle_year(year, current_year) ==
    IsNone(year) \/ (Val(year) >= 1900 /\ Val(year) <= current_year + 1)

validate_string_length(value, max_length) ==
    IsNone(value) \/ Len(Val(value)) <= max_length

\* the check left out: every reference passes
validate_foreign_key_skipped(table_name, value) == TRUE

\* SELECT 1 FROM table WHERE column = :value LIMIT 1; None passes
validate_foreign_key_exists(table_name, value) ==
    \/ IsNone(value)
    \/ Val(value) \in (IF table_name = "crashes" THEN CrashIds
                       ELSE IF table_name = "vehicle" THEN VehicleIds ELSE PersonIds)

\* Python truthiness of an optional string / optional int
TruthyStr(o) == ~IsNone(o) /\ Val(o) # <<>>
TruthyInt(o) == ~IsNone(o) /\ Val(o) # 0

-----------------------------------------------------------------------------
(* Boolean attributes: util/validators.py normalize_boolean and the        *)
(* Optional[bool] fields of the request models                             *)

\* A JSON / Python value: its type, and the field of that type (a float in
\* tenths); the other fields are at rest
JNull == [type |-> "null", b |-> FALSE, n |-> 0, s |-> <<>>]
JBool(b) == [type |-> "bool", b |-> b, n |-> 0, s |-> <<>>]
JInt(n) == [type |-> "int", b |-> FALSE, n |-> n, s |-> <<>>]
JFloat(tenths) == [type |-> "float", b |-> FALSE, n |-> tenths, s |-> <<>>]
JStr(s) == [type |-> "str", b |-> FALSE, n |-> 0, s |-> s]
JList == [type |-> "list", b |-> FALSE, n |-> 0, s |-> <<>>]

\* the result of a conversion: a value, or the error it raised
Ok(v) == [ok |-> TRUE, v |-> v]
Err == [ok |-> FALSE, v |-> None]

UpperChars == <<"A", "B", "C", "D", "E", "F", "G", "H", "I", "J", "K", "L", "M",
                "N", "O", "P", "Q", "R", "S", "T", "U", "V", "W", "X", "Y", "Z">>
LowerChars == <<"a", "b", "c", "d", "e", "f", "g", "h", "i", "j", "k", "l", "m",
                "n", "o", "p", "q", "r", "s", "t", "u", "v", "w", "x", "y", "z">>

\* str.lower()
lower(s) ==
    [i \in 1..Len(s) |->
        IF \E j \in 1..26 : UpperChars[j] = s[i]
        THEN LowerChars[CHOOSE j \in 1..26 : UpperChars[j] = s[i]]
        ELSE s[i]]

Whitespace == {" ", "\t", "\n"}

\* str.strip()
RECURSIVE strip(_)
strip(s) ==
    IF Len(s) = 0 THEN s
    ELSE IF s[1] \in Whitespace THEN strip(SubSeq(s, 2, Len(s)))
    ELSE IF s[Len(s)] \in Whitespace THEN strip(SubSeq(s, 1, Len(s) - 1))
    ELSE s

\* the position of 1 in the unit of a numeric value's v
One(value) == IF value.type = "float" THEN 10 ELSE 1

\* normalize_boolean without its isinstance(value, bool) and numeric branches:
\* a value that is not a string raises
normalize_boolean_text(value) ==
    IF value.type = "null" THEN Ok(None)
    ELSE IF value.type = "str"
    THEN LET value_lower == strip(lower(value.s))
         IN  IF value_lower \in {<<"t", "r", "u", "e">>, <<"1">>, <<"y", "e", "s">>}
             THEN Ok(Some(TRUE))
             ELSE IF value_lower \in {<<"f", "a", "l", "s", "e">>, <<"0">>, <<"n", "o">>}
             THEN Ok(Some(FALSE))
             ELSE Err
    ELSE Err

\* normalize_boolean comparing the lowercased string as it is, without strip()
normalize_boolean_unstripped(value) ==
    IF value.type = "null" THEN Ok(None)
    ELSE IF value.type = "bool" THEN Ok(Some(value.b))
    ELSE IF value.type \in {"int", "float"}
    THEN IF value.n = 0 \/ value.n = One(value) THEN Ok(Some(value.n # 0)) ELSE Err
    ELSE IF value.type = "str"
    THEN IF lower(value.s) \in {<<"t", "r", "u", "e">>, <<"1">>, <<"y", "e", "s">>}
         THEN Ok(Some(TRUE))
         ELSE IF lower(value.s) \in {<<"f", "a", "l", "s", "e">>, <<"0">>, <<"n", "o">>}
         THEN Ok(Some(FALSE))
         ELSE Err
    ELSE Err

\* normalize_boolean(value): Ok(None), Ok(Some(bool)) or the HTTPException 400
normalize_boolean(value) ==
    IF value.type = "null" THEN Ok(None)
    ELSE IF value.type = "bool" THEN Ok(Some(value.b))
    ELSE IF value.type \in {"int", "float"}
    THEN IF value.n = 0 \/ value.n = One(value) THEN Ok(Some(value.n # 0)) ELSE Err
    ELSE IF value.type = "str"
    THEN LET value_lower == strip(lower(value.s))
         IN  IF value_lower \in {<<"t", "r", "u", "e">>, <<"1">>, <<"y", "e", "s">>}
             THEN Ok(Some(TRUE))
             ELSE IF value_lower \in {<<"f", "a", "l", "s", "e">>, <<"0">>, <<"n", "o">>}
             THEN Ok(Some(FALSE))
             ELSE Err
    ELSE Err

-----------------------------------------------------------------------------
(* Requests                                                                *)

NoReq == [op |-> "none"]
NoResp == [op |-> "none", status |-> 0, key |-> None]
Resp(op, status, key) == [op |-> op, status |-> status, key |-> key]

\* the slot p goes to position l holding r; nothing is returned yet
Goto(p, l, r) == /\ pc' = [pc EXCEPT ![p] = l]
                 /\ req' = [req EXCEPT ![p] = r]

\* the handler of slot p returns
Return(p, op, status, key) ==
    /\ pc' = [pc EXCEPT ![p] = "idle"]
    /\ req' = [req EXCEPT ![p] = NoReq]
    /\ last' = Resp(op, status, key)

Init ==
    /\ crashes = {}
    /\ vehicle = {}
    /\ people = {}
    /\ sat = [t \in SatTables |-> {}]
    /\ pc = [p \in Proc |-> "idle"]
    /\ req = [p \in Proc |-> NoReq]
    /\ last = NoResp
    /\ issued = [people |-> 0, vehicle |-> 0]

-----------------------------------------------------------------------------
(* Bounds                                                                  *)

\* rows the store may hold: a create is taken up only below it
MaxRows == 3
\* highest vehicle_id / person number a create may generate
MaxId == 2
\* highest crash_unit_id a create may generate
MaxUnit == 2

CreateOps == {"CrashesCreate", "VehicleCreate", "PeopleCreate", "SatCreate"}
InFlightCreates == Cardinality({p \in Proc : req[p].op \in CreateOps})
HasRoom == TotalRows + InFlightCreates < MaxRows

-----------------------------------------------------------------------------
(* The flush of a delete                                                   *)

\* A foreign key (ON DELETE NO ACTION unless it cascades): the delete of the
\* keys in gone is refused while a remaining row's reference is among them
ForeignKeyNotDeclared(refs, gone) == FALSE
Restricts(refs, gone) == refs \cap gone # {}

\* Crash.people = relationship("People", back_populates="crash"): no delete
\* cascade, so the people of a deleted crash are kept and their key set to NULL
CrashPeopleOwned == TRUE
CrashPeopleCascade == FALSE

\* Numeric(9,6): a written value (units of 1e-7) is rounded to 6 decimals
Numeric96(x) == IF x < 0 THEN -((-x + 5) \div 10) ELSE (x + 5) \div 10

\* The statements of one delete against the committed store.  delC, delV, delP:
\* the crash, vehicle and people keys whose rows the ORM deletes; ormSat[t]: the
\* satellite keys it loaded through a cascade="all, delete-orphan" relationship
\* and deletes; nullCrash, nullVeh: the people it loaded through a relationship
\* without delete cascade, whose foreign key it sets to NULL.  The store applies
\* its ON DELETE CASCADE actions and refuses a delete that would leave a
\* reference through any other foreign key.
\*   stale:  an UPDATE matched no row (StaleDataError)
\*   broken: a foreign key without ON DELETE CASCADE would dangle (IntegrityError)
DeleteFlush(delC, delV, delP, ormSat, nullCrash, nullVeh) ==
    LET casV == IF VehicleOnDeleteCascade
                THEN {r.vehicle_id : r \in {v \in vehicle : v.crash_record_id \in delC}}
                ELSE {}
        goneV == delV \cup casV
        gone(t) == IF SatParent(t) = "crashes" THEN delC
                   ELSE IF SatParent(t) = "vehicle" THEN goneV ELSE delP
        sat1 == [t \in SatTables |->
                    {r \in sat[t] : /\ r.key \notin ormSat[t]
                                    /\ ~(SatOnDeleteCascade(t) /\ r.key \in gone(t))}]
        nulled(r) == [r EXCEPT
                        !.crash_record_id =
                            IF r.person_id \in nullCrash THEN None ELSE @,
                        !.vehicle_id =
                            IF r.person_id \in nullVeh THEN None ELSE @]
        people1 == {nulled(r) : r \in {q \in people : q.person_id \notin delP}}
        vehicle1 == {r \in vehicle : r.vehicle_id \notin goneV}
        crashes1 == {r \in crashes : r.crash_record_id \notin delC}
    IN  [stale   |-> ~((nullCrash \cup nullVeh) \subseteq PersonIds),
         broken  |-> \/ \E t \in SatTables : Restricts({r.key : r \in sat1[t]}, gone(t))
                     \/ Restricts({Val(r.crash_record_id) : r \in
                                      {q \in people1 : ~IsNone(q.crash_record_id)}}, delC)
                     \/ Restricts({Val(r.vehicle_id) : r \in
                                      {q \in people1 : ~IsNone(q.vehicle_id)}}, goneV)
                     \/ Restricts({r.crash_record_id : r \in vehicle1}, delC),
         crashes |-> crashes1,
         vehicle |-> vehicle1,
         people  |-> people1,
         sat     |-> sat1]

\* the delete handlers' flush, commit or rollback, and response
FinishDelete(p, op, key, f) ==
    IF f.stale
    THEN /\ Return(p, op, 500, Some(key))
         /\ UNCHANGED <<crashes, vehicle, people, sat>>
    ELSE IF f.broken
    THEN /\ Return(p, op, 400, Some(key))
         /\ UNCHANGED <<crashes, vehicle, people, sat>>
    ELSE /\ crashes' = f.crashes
         /\ vehicle' = f.vehicle
         /\ people' = f.people
         /\ sat' = f.sat
         /\ Return(p, op, 200, Some(key))

\* a handler that returns without having written
Fail(p, op, status, key) ==
    /\ Return(p, op, status, key)
    /\ UNCHANGED <<crashes, vehicle, people, sat>>

\* a handler that goes on to its next statement
Step(p, l, r) ==
    /\ Goto(p, l, r)
    /\ last' = NoResp
    /\ UNCHANGED <<crashes, vehicle, people, sat>>

-----------------------------------------------------------------------------
(* api/models/crashes.py, api/routers/crashes.py                           *)

\* CreateCrash: the request model's field constraints
CreateCrashValid(data, now) ==
    /\ validate_coordinates(data.latitude, data.longitude)
    /\ (IsNone(data.street_no)
           \/ (Val(data.street_no) >= 0 /\ Val(data.street_no) <= 9999999))
    /\ validate_string_length(data.street_name, 255)
    /\ ~Later(data.incident_date, now)

\* the row of a create that stores the 0 it hashes for a missing street_no
NewCrashZeroed(data) ==
    LET t == truncate_coordinates(data.latitude, data.longitude)
    IN  [crash_record_id |->
            generate_crash_record_id(
                data.incident_date, t[1], t[2],
                IF ~IsNone(data.street_no) THEN Val(data.street_no) ELSE 0,
                IF TruthyStr(data.street_name) THEN Val(data.street_name) ELSE <<>>),
         incident_date |-> Some(data.incident_date),
         latitude |-> t[1],
         longitude |-> t[2],
         street_no |-> IF ~IsNone(data.street_no) THEN data.street_no ELSE Some(0),
         street_name |-> data.street_name]

\* CrashesRouter.create up to db.add: the row it builds
NewCrash(data) ==
    LET t == truncate_coordinates(data.latitude, data.longitude)
    IN  [crash_record_id |->
            generate_crash_record_id(
                data.incident_date, t[1], t[2],
                IF ~IsNone(data.street_no) THEN Val(data.street_no) ELSE 0,
                IF TruthyStr(data.street_name) THEN Val(data.street_name) ELSE <<>>),
         incident_date |-> Some(data.incident_date),
         latitude |-> t[1],
         longitude |-> t[2],
         street_no |-> data.street_no,
         street_name |-> data.street_name]

\* CrashesRouter.create: validations, ID generation, existence lookup
CrashesCreateBegin(p, data, now1, now2) ==
    /\ pc[p] = "idle"
    /\ ~Later(now1, now2)
    /\ IF Aware(data.incident_date)
       THEN \* v > datetime.now() in CreateCrash.validate_date_not_future compares
            \* an aware datetime with a naive one: TypeError
            Fail(p, "CrashesCreate", 500, None)
       ELSE IF ~CreateCrashValid(data, now1)
       THEN Fail(p, "CrashesCreate", 400, None)
       ELSE IF ~( /\ validate_coordinates(data.latitude, data.longitude)
                  /\ validate_date_not_future(Some(data.incident_date), now2)
                  /\ validate_string_length(data.street_name, 255)
                  /\ validate_non_negative(data.street_no) )
       THEN Fail(p, "CrashesCreate", 400, None)
       ELSE LET new_crash == NewCrash(data)
            IN  IF new_crash.crash_record_id \in CrashIds
                THEN Fail(p, "CrashesCreate", 409, Some(new_crash.crash_record_id))
                ELSE /\ HasRoom
                     /\ Step(p, "CrashesCreateFlush",
                             [op |-> "CrashesCreate", row |-> new_crash])

\* CrashesRouter.create: db.add, db.flush and the commit
CrashesCreateFlush(p) ==
    /\ pc[p] = "CrashesCreateFlush"
    /\ LET row == req[p].row
       IN  IF CrashPKTaken(row.crash_record_id)
           THEN Fail(p, "CrashesCreate", 400, Some(row.crash_record_id))
           ELSE /\ crashes' = crashes \cup {row}
                /\ Return(p, "CrashesCreate", 201, Some(row.crash_record_id))
                /\ UNCHANGED <<vehicle, people, sat>>

\* UpdateCrash: the request model's field constraints; update_data is a function
\* from the supplied field names to optional values
UpdateCrashValid(u, now) ==
    /\ ("latitude" \in DOMAIN u /\ ~IsNone(u.latitude)) =>
           (-900000000 <= Val(u.latitude) /\ Val(u.latitude) <= 900000000)
    /\ ("longitude" \in DOMAIN u /\ ~IsNone(u.longitude)) =>
           (-1800000000 <= Val(u.longitude) /\ Val(u.longitude) <= 1800000000)
    /\ ("street_no" \in DOMAIN u /\ ~IsNone(u.street_no)) =>
           (Val(u.street_no) >= 0 /\ Val(u.street_no) <= 9999999)
    /\ "street_name" \in DOMAIN u => validate_string_length(u.street_name, 255)
    /\ "incident_date" \in DOMAIN u => validate_date_not_future(u.incident_date, now)

\* the value a column takes when update_data's value is written to it
CrashColumn(k, v) ==
    IF k \in {"latitude", "longitude"} THEN Numeric96(Val(v)) ELSE v

\* model_dump() without exclude_unset: the optional fields not supplied are
\* written as None
CrashDumpAll(crash, u) ==
    [k \in {"incident_date", "street_no", "street_name"} \cup DOMAIN u |->
        IF k \in DOMAIN u THEN CrashColumn(k, u[k]) ELSE None]

\* for key, value in update_data.items(): setattr(crash, key, value) -- the
\* columns whose value differs from the loaded row's, with their new values
CrashChanges(crash, u) ==
    LET ks == {k \in DOMAIN u : CrashColumn(k, u[k]) # crash[k]}
    IN  [k \in ks |-> CrashColumn(k, u[k])]

\* the row after UPDATE ... SET of the columns in set
Updated(r, set) == [k \in DOMAIN r |-> IF k \in DOMAIN set THEN set[k] ELSE r[k]]

\* setattr and flush ahead of the checks: the attributes other than the
\* coordinates are written before a check fails
CrashesUpdateWritesFirst(p, crash_record_id, u, now1, now2) ==
    /\ pc[p] = "idle"
    /\ ~Later(now1, now2)
    /\ IF crash_record_id \notin CrashIds
       THEN Fail(p, "CrashesUpdate", 404, Some(crash_record_id))
       ELSE LET rest == [k \in DOMAIN u \ {"latitude", "longitude"} |-> u[k]]
            IN  /\ crashes' = {IF r.crash_record_id = crash_record_id
                                THEN Updated(r, CrashChanges(r, rest)) ELSE r : r \in crashes}
                /\ Return(p, "CrashesUpdate",
                          IF UpdateCrashValid(u, now1) THEN 200 ELSE 400,
                          Some(crash_record_id))
                /\ UNCHANGED <<vehicle, people, sat>>

\* CrashesRouter.update: lookup and validations
CrashesUpdateBegin(p, crash_record_id, u, now1, now2) ==
    /\ pc[p] = "idle"
    /\ ~Later(now1, now2)
    /\ IF "incident_date" \in DOMAIN u /\ ~IsNone(u.incident_date)
          /\ Aware(Val(u.incident_date))
       THEN \* UpdateCrash.validate_date_not_future: TypeError
            Fail(p, "CrashesUpdate", 500, None)
       ELSE IF ~UpdateCrashValid(u, now1)
       THEN Fail(p, "CrashesUpdate", 400, None)
       ELSE IF crash_record_id \notin CrashIds
       THEN Fail(p, "CrashesUpdate", 404, Some(crash_record_id))
       ELSE LET crash == CHOOSE r \in crashes : r.crash_record_id = crash_record_id
                coords == {"latitude", "longitude"} \cap DOMAIN u
            IN  IF \E k \in coords : IsNone(u[k])
                THEN \* validate_coordinates compares None: TypeError
                     Fail(p, "CrashesUpdate", 500, Some(crash_record_id))
                ELSE IF ~( /\ coords # {} =>
                                validate_coordinates(
                                    IF "latitude" \in DOMAIN u THEN Val(u.latitude)
                                    ELSE crash.latitude * 10,
                                    IF "longitude" \in DOMAIN u THEN Val(u.longitude)
                                    ELSE crash.longitude * 10)
                           /\ "incident_date" \in DOMAIN u =>
                                validate_date_not_future(u.incident_date, now2)
                           /\ "street_no" \in DOMAIN u =>
                                validate_non_negative(u.street_no)
                           /\ ("street_name" \in DOMAIN u /\ TruthyStr(u.street_name)) =>
                                validate_string_length(u.street_name, 255) )
                THEN Fail(p, "CrashesUpdate", 400, Some(crash_record_id))
                ELSE IF DOMAIN CrashChanges(crash, u) = {}
                THEN \* nothing is dirty: the flush emits no statement
                     Fail(p, "CrashesUpdate", 200, Some(crash_record_id))
                ELSE Step(p, "CrashesUpdateFlush",
                          [op |-> "CrashesUpdate", key |-> crash_record_id,
                           set |-> CrashChanges(crash, u)])

\* CrashesRouter.update: db.flush and the commit
CrashesUpdateFlush(p) ==
    /\ pc[p] = "CrashesUpdateFlush"
    /\ LET k == req[p].key
       IN  IF k \notin CrashIds
           THEN \* UPDATE matched no row: StaleDataError
                Fail(p, "CrashesUpdate", 500, Some(k))
           ELSE /\ crashes' = {IF r.crash_record_id = k THEN Updated(r, req[p].set) ELSE r
                               : r \in crashes}
                /\ Return(p, "CrashesUpdate", 200, Some(k))
                /\ UNCHANGED <<vehicle, people, sat>>

\* CrashesRouter.get: db.query(Crash).get(crash_record_id), 404 when none
CrashesGet(p, crash_record_id) ==
    /\ pc[p] = "idle"
    /\ Fail(p, "CrashesGet", IF crash_record_id \in CrashIds THEN 200 ELSE 404,
            Some(crash_record_id))

\* CrashesRouter.delete: lookup
CrashesDeleteBegin(p, crash_record_id) ==
    /\ pc[p] = "idle"
    /\ IF crash_record_id \notin CrashIds
       THEN Fail(p, "CrashesDelete", 404, Some(crash_record_id))
       ELSE Step(p, "CrashesDeleteLoad",
                 [op |-> "CrashesDelete", key |-> crash_record_id])

\* db.delete(crash); db.flush(): the unit of work loads Crash's relationships
\* (date_info, circumstances, injuries, classification, vehicles, people) and
\* the relationships of each loaded Vehicle (models, maneuvers, violations, people)
CrashesDeleteLoad(p) ==
    /\ pc[p] = "CrashesDeleteLoad"
    /\ LET k == req[p].key
           vs == {r.vehicle_id : r \in {v \in vehicle : v.crash_record_id = k}}
       IN  Step(p, "CrashesDeleteFlush",
                [op |-> "CrashesDelete", key |-> k, vehicles |-> vs,
                 ormSat |-> [t \in SatTables |->
                               IF t \in CrashSatTables THEN SatKeys(t) \cap {k}
                               ELSE IF t \in VehicleSatTables THEN SatKeys(t) \cap vs
                               ELSE {}],
                 nullCrash |-> {r.person_id : r \in
                                  {q \in people : q.crash_record_id = Some(k)}},
                 nullVeh |-> {r.person_id : r \in
                                  {q \in people : ~IsNone(q.vehicle_id)
                                                  /\ Val(q.vehicle_id) \in vs}}])

\* CrashesRouter.delete: the statements of the flush and the commit
CrashesDeleteFlush(p) ==
    /\ pc[p] = "CrashesDeleteFlush"
    /\ FinishDelete(p, "CrashesDelete", req[p].key,
                    DeleteFlush({req[p].key}, req[p].vehicles,
                                IF CrashPeopleCascade THEN req[p].nullCrash ELSE {},
                                req[p].ormSat,
                                IF CrashPeopleCascade THEN {} ELSE req[p].nullCrash,
                                req[p].nullVeh))

-----------------------------------------------------------------------------
(* api/models/vehicle.py, api/routers/vehicle.py                           *)

\* datetime.now().year
current_year == 2024

\* SELECT COALESCE(MAX(vehicle_id), 0) + 1 FROM vehicle
generate_vehicle_id == IF vehicle = {} THEN 1 ELSE Max(VehicleIds) + 1

\* SELECT COALESCE(MAX(crash_unit_id), 0) + 1 FROM vehicle
generate_crash_unit_id ==
    IF vehicle = {} THEN 1 ELSE Max({r.crash_unit_id : r \in vehicle}) + 1

\* CreateVehicle: vehicle_year has ge=1900 and validate_year
CreateVehicleValid(data) ==
    IsNone(data.vehicle_year)
        \/ (Val(data.vehicle_year) >= 1900 /\ Val(data.vehicle_year) <= current_year + 1)

\* VehicleRouter.create: validations and the vehicle_id read
VehicleCreateBegin(p, data) ==
    /\ pc[p] = "idle"
    /\ IF ~CreateVehicleValid(data)
       THEN Fail(p, "VehicleCreate", 400, None)
       ELSE IF ~validate_foreign_key_exists("crashes", Some(data.crash_record_id))
       THEN Fail(p, "VehicleCreate", 404, None)
       ELSE IF ~validate_vehicle_year(data.vehicle_year, current_year)
       THEN Fail(p, "VehicleCreate", 400, None)
       ELSE /\ HasRoom
            /\ generate_vehicle_id <= MaxId
            /\ Step(p, "VehicleCreateUnit",
                    [op |-> "VehicleCreate", data |-> data,
                     vehicle_id |-> generate_vehicle_id])

\* VehicleRouter.create: the crash_unit_id read and the row it builds
VehicleCreateUnit(p) ==
    /\ pc[p] = "VehicleCreateUnit"
    /\ generate_crash_unit_id <= MaxUnit
    /\ Step(p, "VehicleCreateFlush",
            [op |-> "VehicleCreate",
             row |-> [vehicle_id |-> req[p].vehicle_id,
                      crash_unit_id |-> generate_crash_unit_id,
                      crash_record_id |-> req[p].data.crash_record_id,
                      vehicle_year |-> req[p].data.vehicle_year]])

\* VehicleRouter.create: db.add, db.flush and the commit
VehicleCreateFlush(p) ==
    /\ pc[p] = "VehicleCreateFlush"
    /\ LET row == req[p].row
       IN  IF VehiclePKTaken(row.vehicle_id) \/ VehicleFKBroken(row)
           THEN Fail(p, "VehicleCreate", 400, Some(row.vehicle_id))
           ELSE /\ vehicle' = vehicle \cup {row}
                /\ Return(p, "VehicleCreate", 201, Some(row.vehicle_id))
                /\ UNCHANGED <<crashes, people, sat>>

\* UpdateVehicle: vehicle_year has ge=1900 and validate_year
UpdateVehicleValid(u) ==
    ("vehicle_year" \in DOMAIN u /\ ~IsNone(u.vehicle_year)) =>
        (Val(u.vehicle_year) >= 1900 /\ Val(u.vehicle_year) <= current_year + 1)

\* UpdateVehicle.validate_year has no return statement: the validated field
\* takes the validator's result, None
UpdateVehicleParsed(u) ==
    [k \in DOMAIN u |-> IF k = "vehicle_year" THEN None ELSE u[k]]

\* the column value written for update_data's value: crash_record_id is a plain
\* column (NULL is <<>>), vehicle_year an optional one
VehicleColumn(k, v) ==
    IF k = "crash_record_id" THEN (IF IsNone(v) THEN None ELSE Val(v)) ELSE v

VehicleChanges(row, u) ==
    LET ks == {k \in DOMAIN u : VehicleColumn(k, u[k]) # row[k]}
    IN  [k \in ks |-> VehicleColumn(k, u[k])]

\* VehicleRouter.update: lookup and validations
VehicleUpdateBegin(p, vehicle_id, data) ==
    /\ pc[p] = "idle"
    /\ IF ~UpdateVehicleValid(data)
       THEN Fail(p, "VehicleUpdate", 400, None)
       ELSE IF vehicle_id \notin VehicleIds
       THEN Fail(p, "VehicleUpdate", 404, Some(vehicle_id))
       ELSE LET u == UpdateVehicleParsed(data)
                row == CHOOSE r \in vehicle : r.vehicle_id = vehicle_id
            IN  IF "crash_record_id" \in DOMAIN u
                    /\ ~validate_foreign_key_exists("crashes", u.crash_record_id)
                THEN Fail(p, "VehicleUpdate", 404, Some(vehicle_id))
                ELSE IF "vehicle_year" \in DOMAIN u
                    /\ ~validate_vehicle_year(u.vehicle_year, current_year)
                THEN Fail(p, "VehicleUpdate", 400, Some(vehicle_id))
                ELSE IF DOMAIN VehicleChanges(row, u) = {}
                THEN Fail(p, "VehicleUpdate", 200, Some(vehicle_id))
                ELSE Step(p, "VehicleUpdateFlush",
                          [op |-> "VehicleUpdate", key |-> vehicle_id,
                           set |-> VehicleChanges(row, u)])

\* VehicleRouter.update: db.flush and the commit
VehicleUpdateFlush(p) ==
    /\ pc[p] = "VehicleUpdateFlush"
    /\ LET k == req[p].key
           set == req[p].set
       IN  IF k \notin VehicleIds
           THEN Fail(p, "VehicleUpdate", 500, Some(k))
           ELSE IF "crash_record_id" \in DOMAIN set
                   /\ (IsNone(set.crash_record_id) \/ set.crash_record_id \notin CrashIds)
           THEN \* NOT NULL or foreign key violation: IntegrityError
                Fail(p, "VehicleUpdate", 400, Some(k))
           ELSE /\ vehicle' = {IF r.vehicle_id = k THEN Updated(r, set) ELSE r
                               : r \in vehicle}
                /\ Return(p, "VehicleUpdate", 200, Some(k))
                /\ UNCHANGED <<crashes, people, sat>>

\* VehicleRouter.delete: lookup
\* VehicleRouter.get
VehicleGet(p, vehicle_id) ==
    /\ pc[p] = "idle"
    /\ Fail(p, "VehicleGet", IF vehicle_id \in VehicleIds THEN 200 ELSE 404,
            Some(vehicle_id))

VehicleDeleteBegin(p, vehicle_id) ==
    /\ pc[p] = "idle"
    /\ IF vehicle_id \notin VehicleIds
       THEN Fail(p, "VehicleDelete", 404, Some(vehicle_id))
       ELSE Step(p, "VehicleDeleteLoad", [op |-> "VehicleDelete", key |-> vehicle_id])

\* db.delete(vehicle); db.flush(): the unit of work loads Vehicle's relationships
\* (models, maneuvers, violations, people)
VehicleDeleteLoad(p) ==
    /\ pc[p] = "VehicleDeleteLoad"
    /\ LET k == req[p].key
       IN  Step(p, "VehicleDeleteFlush",
                [op |-> "VehicleDelete", key |-> k,
                 ormSat |-> [t \in SatTables |->
                               IF t \in VehicleSatTables THEN SatKeys(t) \cap {k} ELSE {}],
                 nullVeh |-> {r.person_id : r \in
                                  {q \in people : q.vehicle_id = Some(k)}}])

\* VehicleRouter.delete: the statements of the flush and the commit
VehicleDeleteFlush(p) ==
    /\ pc[p] = "VehicleDeleteFlush"
    /\ FinishDelete(p, "VehicleDelete", req[p].key,
                    DeleteFlush({}, {req[p].key}, {}, req[p].ormSat, {}, req[p].nullVeh))

-----------------------------------------------------------------------------
(* api/models/people.py, api/routers/people.py                             *)

\* SELECT COALESCE(MAX(CAST(SUBSTRING(person_id FROM 2) AS INTEGER)), 0) + 1
\* FROM people WHERE person_id ~ '^Q[0-9]{7}$'
NextPersonNum ==
    LET nums == {PersonNum(r.person_id) : r \in {q \in people : MatchesQ7(q.person_id)}}
    IN  IF nums = {} THEN 1 ELSE Max(nums) + 1

\* the limit check left out
generate_person_id_unchecked == <<TRUE, PersonIdOf(NextPersonNum)>>

\* generate_person_id: <<TRUE, id>>, or <<FALSE, _>> for the ValueError
generate_person_id ==
    IF NextPersonNum > 9999999 THEN <<FALSE, <<>>>>
    ELSE <<TRUE, PersonIdOf(NextPersonNum)>>

\* CreatePeople / UpdatePeople: age has ge=0, le=120
PeopleAgeValid(age) == IsNone(age) \/ (Val(age) >= 0 /\ Val(age) <= 120)

\* PeopleRouter.create: validations and the person_id read
PeopleCreateBegin(p, data) ==
    /\ pc[p] = "idle"
    /\ IF ~PeopleAgeValid(data.age)
       THEN Fail(p, "PeopleCreate", 400, None)
       ELSE IF TruthyStr(data.crash_record_id)
               /\ ~validate_foreign_key_exists("crashes", data.crash_record_id)
       THEN Fail(p, "PeopleCreate", 404, None)
       ELSE IF TruthyInt(data.vehicle_id)
               /\ ~validate_foreign_key_exists("vehicle", data.vehicle_id)
       THEN Fail(p, "PeopleCreate", 404, None)
       ELSE IF ~validate_age(data.age)
       THEN Fail(p, "PeopleCreate", 400, None)
       ELSE IF ~generate_person_id[1]
       THEN Fail(p, "PeopleCreate", 500, None)
       ELSE /\ HasRoom
            /\ (NextPersonNum <= MaxId \/ NextPersonNum + MaxId > 9999999)
            /\ Step(p, "PeopleCreateFlush",
                    [op |-> "PeopleCreate",
                     row |-> [person_id |-> generate_person_id[2],
                              crash_record_id |-> data.crash_record_id,
                              vehicle_id |-> data.vehicle_id,
                              age |-> data.age]])

\* PeopleRouter.create: db.add, db.flush and the commit
PeopleCreateFlush(p) ==
    /\ pc[p] = "PeopleCreateFlush"
    /\ LET row == req[p].row
       IN  IF PeoplePKTaken(row.person_id) \/ PeopleFKBroken(row)
           THEN Fail(p, "PeopleCreate", 400, Some(row.person_id))
           ELSE /\ people' = people \cup {row}
                /\ Return(p, "PeopleCreate", 201, Some(row.person_id))
                /\ UNCHANGED <<crashes, vehicle, sat>>

PeopleChanges(row, u) ==
    LET ks == {k \in DOMAIN u : u[k] # row[k]}
    IN  [k \in ks |-> u[k]]

\* PeopleRouter.update: lookup and validations
PeopleUpdateBegin(p, person_id, u) ==
    /\ pc[p] = "idle"
    /\ IF "age" \in DOMAIN u /\ ~PeopleAgeValid(u.age)
       THEN Fail(p, "PeopleUpdate", 400, None)
       ELSE IF person_id \notin PersonIds
       THEN Fail(p, "PeopleUpdate", 404, Some(person_id))
       ELSE LET row == CHOOSE r \in people : r.person_id = person_id
            IN  IF "crash_record_id" \in DOMAIN u /\ TruthyStr(u.crash_record_id)
                    /\ ~validate_foreign_key_exists("crashes", u.crash_record_id)
                THEN Fail(p, "PeopleUpdate", 404, Some(person_id))
                ELSE IF "vehicle_id" \in DOMAIN u /\ TruthyInt(u.vehicle_id)
                    /\ ~validate_foreign_key_exists("vehicle", u.vehicle_id)
                THEN Fail(p, "PeopleUpdate", 404, Some(person_id))
                ELSE IF "age" \in DOMAIN u /\ ~validate_age(u.age)
                THEN Fail(p, "PeopleUpdate", 400, Some(person_id))
                ELSE IF DOMAIN PeopleChanges(row, u) = {}
                THEN Fail(p, "PeopleUpdate", 200, Some(person_id))
                ELSE Step(p, "PeopleUpdateFlush",
                          [op |-> "PeopleUpdate", key |-> person_id,
                           set |-> PeopleChanges(row, u)])

\* PeopleRouter.update: db.flush and the commit
PeopleUpdateFlush(p) ==
    /\ pc[p] = "PeopleUpdateFlush"
    /\ LET k == req[p].key
           set == req[p].set
       IN  IF k \notin PersonIds
           THEN Fail(p, "PeopleUpdate", 500, Some(k))
           ELSE IF \/ ("crash_record_id" \in DOMAIN set /\ ~IsNone(set.crash_record_id)
                           /\ Val(set.crash_record_id) \notin CrashIds)
                   \/ ("vehicle_id" \in DOMAIN set /\ ~IsNone(set.vehicle_id)
                           /\ Val(set.vehicle_id) \notin VehicleIds)
           THEN Fail(p, "PeopleUpdate", 400, Some(k))
           ELSE /\ people' = {IF r.person_id = k THEN Updated(r, set) ELSE r : r \in people}
                /\ Return(p, "PeopleUpdate", 200, Some(k))
                /\ UNCHANGED <<crashes, vehicle, sat>>

\* PeopleRouter.delete: lookup
\* PeopleRouter.get
PeopleGet(p, person_id) ==
    /\ pc[p] = "idle"
    /\ Fail(p, "PeopleGet", IF person_id \in PersonIds THEN 200 ELSE 404,
            Some(person_id))

\* a delete that answers its confirmation when there is no such row
PeopleDeleteQuiet(p, person_id) ==
    /\ pc[p] = "idle"
    /\ IF person_id \notin PersonIds
       THEN Fail(p, "PeopleDelete", 200, Some(person_id))
       ELSE Step(p, "PeopleDeleteLoad", [op |-> "PeopleDelete", key |-> person_id])

PeopleDeleteBegin(p, person_id) ==
    /\ pc[p] = "idle"
    /\ IF person_id \notin PersonIds
       THEN Fail(p, "PeopleDelete", 404, Some(person_id))
       ELSE Step(p, "PeopleDeleteLoad", [op |-> "PeopleDelete", key |-> person_id])

\* db.delete(person); db.flush(): the unit of work loads People.driver_info
PeopleDeleteLoad(p) ==
    /\ pc[p] = "PeopleDeleteLoad"
    /\ LET k == req[p].key
       IN  Step(p, "PeopleDeleteFlush",
                [op |-> "PeopleDelete", key |-> k,
                 ormSat |-> [t \in SatTables |->
                               IF t \in PeopleSatTables THEN SatKeys(t) \cap {k} ELSE {}]])

\* PeopleRouter.delete: the statements of the flush and the commit
PeopleDeleteFlush(p) ==
    /\ pc[p] = "PeopleDeleteFlush"
    /\ FinishDelete(p, "PeopleDelete", req[p].key,
                    DeleteFlush({}, {}, {req[p].key}, req[p].ormSat, {}, {}))

-----------------------------------------------------------------------------
(* The routers of the 1:1 satellites: crash_date, crash_circumstances,     *)
(* crash_injuries, crash_classification (key crash_record_id),             *)
(* vehicle_models, vehicle_maneuvers, vehicle_violations (key vehicle_id)  *)
(* and driver_info (key person_id).  The eight routers have the same       *)
(* shape; a row is its key and val, one of its other columns.              *)

\* create: validate_foreign_key_exists on the key, then the existence lookup
SatCreateBegin(p, t, key, val) ==
    /\ pc[p] = "idle"
    /\ IF ~validate_foreign_key_exists(SatParent(t), Some(key))
       THEN Fail(p, "SatCreate", 404, Some(<<t, key>>))
       ELSE IF key \in SatKeys(t)
       THEN Fail(p, "SatCreate", 409, Some(<<t, key>>))
       ELSE /\ HasRoom
            /\ Step(p, "SatCreateFlush",
                    [op |-> "SatCreate", t |-> t, row |-> [key |-> key, val |-> val]])

\* create: db.add, db.flush and the commit
SatCreateFlush(p) ==
    /\ pc[p] = "SatCreateFlush"
    /\ LET t == req[p].t
           row == req[p].row
       IN  IF SatPKTaken(t, row.key) \/ SatFKBroken(t, row.key)
           THEN Fail(p, "SatCreate", 400, Some(<<t, row.key>>))
           ELSE /\ sat' = [sat EXCEPT ![t] = @ \cup {row}]
                /\ Return(p, "SatCreate", 201, Some(<<t, row.key>>))
                /\ UNCHANGED <<crashes, vehicle, people>>

\* update: lookup; the key is not a field of the update models
SatUpdateBegin(p, t, key, val) ==
    /\ pc[p] = "idle"
    /\ IF key \notin SatKeys(t)
       THEN Fail(p, "SatUpdate", 404, Some(<<t, key>>))
       ELSE LET row == CHOOSE r \in sat[t] : r.key = key
            IN  IF row.val = val
                THEN Fail(p, "SatUpdate", 200, Some(<<t, key>>))
                ELSE Step(p, "SatUpdateFlush",
                          [op |-> "SatUpdate", t |-> t, key |-> key, val |-> val])

\* update: db.flush and the commit
SatUpdateFlush(p) ==
    /\ pc[p] = "SatUpdateFlush"
    /\ LET t == req[p].t
           k == req[p].key
       IN  IF k \notin SatKeys(t)
           THEN Fail(p, "SatUpdate", 500, Some(<<t, k>>))
           ELSE /\ sat' = [sat EXCEPT ![t] =
                             {IF r.key = k THEN [r EXCEPT !.val = req[p].val] ELSE r
                              : r \in @}]
                /\ Return(p, "SatUpdate", 200, Some(<<t, k>>))
                /\ UNCHANGED <<crashes, vehicle, people>>

\* get: lookup by the key
SatGet(p, t, key) ==
    /\ pc[p] = "idle"
    /\ Fail(p, "SatGet", IF key \in SatKeys(t) THEN 200 ELSE 404, Some(<<t, key>>))

\* delete: lookup
SatDeleteBegin(p, t, key) ==
    /\ pc[p] = "idle"
    /\ IF key \notin SatKeys(t)
       THEN Fail(p, "SatDelete", 404, Some(<<t, key>>))
       ELSE Step(p, "SatDeleteFlush", [op |-> "SatDelete", t |-> t, key |-> key])

\* delete: db.delete, db.flush and the commit; a satellite has no dependents
SatDeleteFlush(p) ==
    /\ pc[p] = "SatDeleteFlush"
    /\ sat' = [sat EXCEPT ![req[p].t] = {r \in @ : r.key # req[p].key}]
    /\ Return(p, "SatDelete", 200, Some(<<req[p].t, req[p].key>>))
    /\ UNCHANGED <<crashes, vehicle, people>>

-----------------------------------------------------------------------------
(* api/models/vehicle_violations.py, api/routers/vehicle_violations.py:    *)
(* the satellite with boolean attributes, in full.  Its row is its key and *)
(* val, the record of its four other columns.                              *)

\* An Optional[bool] field of a request model (pydantic, lax mode): null, a
\* bool, the numbers 0 and 1, and the strings that lowercased are one of
\* 0 off f false n no / 1 on t true y yes
OptionalBoolField(value) ==
    IF value.type = "null" THEN Ok(None)
    ELSE IF value.type = "bool" THEN Ok(Some(value.b))
    ELSE IF value.type \in {"int", "float"}
    THEN IF value.n = 0 \/ value.n = One(value) THEN Ok(Some(value.n # 0)) ELSE Err
    ELSE IF value.type = "str"
    THEN IF lower(value.s) \in {<<"1">>, <<"o", "n">>, <<"t">>, <<"t", "r", "u", "e">>,
                                <<"y">>, <<"y", "e", "s">>}
         THEN Ok(Some(TRUE))
         ELSE IF lower(value.s) \in {<<"0">>, <<"o", "f", "f">>, <<"f">>,
                                     <<"f", "a", "l", "s", "e">>, <<"n">>, <<"n", "o">>}
         THEN Ok(Some(FALSE))
         ELSE Err
    ELSE Err

ViolationBooleans == {"cmrc_veh_i", "exceed_speed_limit_i", "hazmat_present_i"}

\* CreateVehicleViolation / UpdateVehicleViolation accept the body: every
\* boolean supplied parses and vehicle_defect has at most 100 characters
ViolationBodyValid(body) ==
    /\ \A k \in ViolationBooleans \cap DOMAIN body : OptionalBoolField(body[k]).ok
    /\ "vehicle_defect" \in DOMAIN body => validate_string_length(body.vehicle_defect, 100)

\* the model instance's fields: booleans parsed, the rest as given
ViolationParsed(body) ==
    [k \in DOMAIN body |->
        IF k \in ViolationBooleans THEN OptionalBoolField(body[k]).v ELSE body[k]]

\* create: data_dict[key] = normalize_boolean(data_dict[key]) for the booleans
\* that are not None
ViolationNormalized(data_dict) ==
    [k \in DOMAIN data_dict |->
        IF k \in ViolationBooleans /\ ~IsNone(data_dict[k])
        THEN normalize_boolean(JBool(Val(data_dict[k]))).v
        ELSE data_dict[k]]

\* VehicleViolationsRouter.create up to db.add
ViolationsCreateBegin(p, body) ==
    /\ pc[p] = "idle"
    /\ IF ~ViolationBodyValid(body)
       THEN Fail(p, "SatCreate", 400, None)
       ELSE LET data == ViolationParsed(body)
                key == data.vehicle_id
                t == "vehicle_violations"
            IN  IF ~validate_foreign_key_exists("vehicle", Some(key))
                THEN Fail(p, "SatCreate", 404, Some(<<t, key>>))
                ELSE IF key \in SatKeys(t)
                THEN Fail(p, "SatCreate", 409, Some(<<t, key>>))
                ELSE IF TruthyStr(data.vehicle_defect)
                        /\ ~validate_string_length(data.vehicle_defect, 100)
                THEN Fail(p, "SatCreate", 400, Some(<<t, key>>))
                ELSE LET data_dict == ViolationNormalized(data)
                     IN  /\ HasRoom
                         /\ Step(p, "SatCreateFlush",
                                 [op |-> "SatCreate", t |-> t,
                                  row |-> [key |-> key,
                                           val |-> [k \in DOMAIN data_dict \ {"vehicle_id"}
                                                       |-> data_dict[k]]]])

\* the columns whose value differs from the loaded row's, with their new values
ViolationChanges(row, u) ==
    LET ks == {k \in DOMAIN u : u[k] # row.val[k]}
    IN  [k \in ks |-> u[k]]

\* VehicleViolationsRouter.update up to db.flush
ViolationsUpdateBegin(p, vehicle_id, body) ==
    /\ pc[p] = "idle"
    /\ LET t == "vehicle_violations"
       IN  IF ~ViolationBodyValid(body)
           THEN Fail(p, "SatUpdate", 400, None)
           ELSE IF vehicle_id \notin SatKeys(t)
           THEN Fail(p, "SatUpdate", 404, Some(<<t, vehicle_id>>))
           ELSE LET row == CHOOSE r \in sat[t] : r.key = vehicle_id
                    update_data == ViolationParsed(body)
                IN  IF "vehicle_defect" \in DOMAIN update_data
                        /\ TruthyStr(update_data.vehicle_defect)
                        /\ ~validate_string_length(update_data.vehicle_defect, 100)
                    THEN Fail(p, "SatUpdate", 400, Some(<<t, vehicle_id>>))
                    ELSE IF DOMAIN ViolationChanges(row, update_data) = {}
                    THEN Fail(p, "SatUpdate", 200, Some(<<t, vehicle_id>>))
                    ELSE Step(p, "ViolationsUpdateFlush",
                              [op |-> "SatUpdate", t |-> t, key |-> vehicle_id,
                               set |-> ViolationChanges(row, update_data)])

\* VehicleViolationsRouter.update: db.flush and the commit
ViolationsUpdateFlush(p) ==
    /\ pc[p] = "ViolationsUpdateFlush"
    /\ LET t == req[p].t
           k == req[p].key
       IN  IF k \notin SatKeys(t)
           THEN Fail(p, "SatUpdate", 500, Some(<<t, k>>))
           ELSE /\ sat' = [sat EXCEPT ![t] =
                             {IF r.key = k
                              THEN [r EXCEPT !.val = Updated(r.val, req[p].set)]
                              ELSE r : r \in @}]
                /\ Return(p, "SatUpdate", 200, Some(<<t, k>>))
                /\ UNCHANGED <<crashes, vehicle, people>>

-----------------------------------------------------------------------------
(* The boolean attributes on the create path and on the update path of     *)
(* vehicle_violations and crash_circumstances                               *)

CircumstancesBooleans == {"intersection_related_i", "not_right_of_way_i"}
BooleanAttributes == ViolationBooleans \cup CircumstancesBooleans

\* create, for a body holding value in the boolean field k: the request
\* model's field, then normalize_boolean when it is not None; the value
\* given to the entity, or the 400
CreateStores(k, value) ==
    IF k \in ViolationBooleans
    THEN LET body == [f \in {k} |-> value]
         IN  IF ~ViolationBodyValid(body) THEN Err
             ELSE Ok(ViolationNormalized(ViolationParsed(body))[k])
    ELSE LET field == OptionalBoolField(value)
         IN  IF ~field.ok \/ IsNone(field.v) THEN field
             ELSE normalize_boolean(JBool(Val(field.v)))

\* update: update_data[k] of model_dump(exclude_unset=True) goes to setattr
UpdateStores(k, value) ==
    IF k \in ViolationBooleans
    THEN LET body == [f \in {k} |-> value]
         IN  IF ~ViolationBodyValid(body) THEN Err
             ELSE Ok(ViolationParsed(body)[k])
    ELSE OptionalBoolField(value)

-----------------------------------------------------------------------------
(* Requests shared by the specifications                                   *)

T0 == [sec |-> 0, usec |-> 0]
T1 == [sec |-> 1, usec |-> 0]

\* a crash that serves as parent, and the key CrashesRouter.create gives it
Crash0 == [incident_date |-> T0, latitude |-> 418781009, longitude |-> -876298009,
           street_no |-> None, street_name |-> None]
Key0 == NewCrash(Crash0).crash_record_id

Crash12 == [Crash0 EXCEPT !.street_no = Some(12)]
Key12 == NewCrash(Crash12).crash_record_id

VehicleKeys == 1..MaxId
PersonKeys == {PersonIdOf(n) : n \in 1..MaxId}

\* history: the highest vehicle_id and person number any committed row has held
Recorded ==
    [people  |-> Max({issued.people} \cup {PersonNum(r.person_id) : r \in people'}),
     vehicle |-> Max({issued.vehicle} \cup {r.vehicle_id : r \in vehicle'})]

-----------------------------------------------------------------------------
(* Generated identifiers: concurrent creates and deletes of Vehicle and    *)
(* People rows under one Crash                                             *)

IdVehicleInputs == [crash_record_id : {Key0}, vehicle_year : {None, Some(2020)}]
IdPeopleInputs == [crash_record_id : {None}, vehicle_id : {None}, age : {None, Some(30)}]

\* every step of this specification records the identifiers it committed
NextIds ==
    \E p \in Proc :
        \/ CrashesCreateBegin(p, Crash0, T0, T0) /\ issued' = Recorded
        \/ CrashesCreateFlush(p) /\ issued' = Recorded
        \/ \E d \in IdVehicleInputs : VehicleCreateBegin(p, d) /\ issued' = Recorded
        \/ VehicleCreateUnit(p) /\ issued' = Recorded
        \/ VehicleCreateFlush(p) /\ issued' = Recorded
        \/ \E k \in VehicleKeys : VehicleDeleteBegin(p, k) /\ issued' = Recorded
        \/ VehicleDeleteLoad(p) /\ issued' = Recorded
        \/ VehicleDeleteFlush(p) /\ issued' = Recorded
        \/ \E d \in IdPeopleInputs : PeopleCreateBegin(p, d) /\ issued' = Recorded
        \/ PeopleCreateFlush(p) /\ issued' = Recorded
        \/ \E k \in PersonKeys : PeopleDeleteBegin(p, k) /\ issued' = Recorded
        \/ PeopleDeleteLoad(p) /\ issued' = Recorded
        \/ PeopleDeleteFlush(p) /\ issued' = Recorded

SpecIds == Init /\ [][NextIds]_vars

-----------------------------------------------------------------------------
(* Crash records: creates, updates and deletes of the crashes table        *)

\* requests arrive at T0: a crash dated T1 is in the future
Now == T0

\* 41.8781000 and 41.8781009 truncate to the same coordinate; 95 is out of range;
\* a missing street_no and street_no 0 give the same key
CrashInputs == [incident_date : {T0, T1},
                latitude : {418781000, 418781009, 950000000},
                longitude : {-876298009},
                street_no : {None, Some(0), Some(12)},
                street_name : {None}]
CrashUpdates == {[street_no |-> Some(12)], [street_no |-> None],
                 [latitude |-> Some(418781009)], [latitude |-> None],
                 [incident_date |-> Some(T1)],
                 [latitude |-> Some(950000000), street_no |-> Some(12)]}
MissingCrashId == sha512(<<>>)
CrashKeys == {Key0, Key12, MissingCrashId}

NextCrash ==
    \E p \in Proc :
        \/ \E d \in CrashInputs : CrashesCreateBegin(p, d, Now, Now) /\ UNCHANGED issued
        \/ CrashesCreateFlush(p) /\ UNCHANGED issued
        \/ \E k \in CrashKeys, u \in CrashUpdates :
               CrashesUpdateBegin(p, k, u, Now, Now) /\ UNCHANGED issued
        \/ CrashesUpdateFlush(p) /\ UNCHANGED issued
        \/ \E k \in CrashKeys : CrashesDeleteBegin(p, k) /\ UNCHANGED issued
        \/ CrashesDeleteLoad(p) /\ UNCHANGED issued
        \/ CrashesDeleteFlush(p) /\ UNCHANGED issued

SpecCrash == Init /\ [][NextCrash]_vars

-----------------------------------------------------------------------------
(* References: every entity type, with parents that come and go            *)

\* The satellite tables of one parent that have the same ON DELETE rule go
\* through the same statements; requests are sent to one table of each kind.
RefSatTables == {"crash_date", "crash_injuries", "vehicle_specs", "driver_info"}
RefSatKeys(t) == IF SatParent(t) = "crashes" THEN {Key0}
                 ELSE IF SatParent(t) = "vehicle" THEN {1} ELSE {PersonIdOf(1)}
RefVehicleInputs == [crash_record_id : {Key0}, vehicle_year : {None}]
RefVehicleUpdates == {[crash_record_id |-> Some(Key12)], [crash_record_id |-> Some(Key0)]}
RefPeopleInputs == {[crash_record_id |-> None, vehicle_id |-> None, age |-> None],
                    [crash_record_id |-> Some(Key0), vehicle_id |-> Some(1), age |-> None]}
RefPeopleUpdates == {[crash_record_id |-> Some(Key0)]}

Next ==
    \E p \in Proc :
        \/ \E d \in {Crash0, Crash12} : CrashesCreateBegin(p, d, T0, T0) /\ UNCHANGED issued
        \/ CrashesCreateFlush(p) /\ UNCHANGED issued
        \/ \E k \in {Key0, Key12} : CrashesDeleteBegin(p, k) /\ UNCHANGED issued
        \/ CrashesDeleteLoad(p) /\ UNCHANGED issued
        \/ CrashesDeleteFlush(p) /\ UNCHANGED issued
        \/ \E d \in RefVehicleInputs : VehicleCreateBegin(p, d) /\ UNCHANGED issued
        \/ VehicleCreateUnit(p) /\ UNCHANGED issued
        \/ VehicleCreateFlush(p) /\ UNCHANGED issued
        \/ \E k \in VehicleKeys, u \in RefVehicleUpdates :
               VehicleUpdateBegin(p, k, u) /\ UNCHANGED issued
        \/ VehicleUpdateFlush(p) /\ UNCHANGED issued
        \/ \E k \in VehicleKeys : VehicleDeleteBegin(p, k) /\ UNCHANGED issued
        \/ VehicleDeleteLoad(p) /\ UNCHANGED issued
        \/ VehicleDeleteFlush(p) /\ UNCHANGED issued
        \/ \E d \in RefPeopleInputs : PeopleCreateBegin(p, d) /\ UNCHANGED issued
        \/ PeopleCreateFlush(p) /\ UNCHANGED issued
        \/ \E k \in PersonKeys, u \in RefPeopleUpdates :
               PeopleUpdateBegin(p, k, u) /\ UNCHANGED issued
        \/ PeopleUpdateFlush(p) /\ UNCHANGED issued
        \/ \E k \in PersonKeys : PeopleDeleteBegin(p, k) /\ UNCHANGED issued
        \/ PeopleDeleteLoad(p) /\ UNCHANGED issued
        \/ PeopleDeleteFlush(p) /\ UNCHANGED issued
        \/ \E t \in RefSatTables : \E k \in RefSatKeys(t) :
               SatCreateBegin(p, t, k, 0) /\ UNCHANGED issued
        \/ SatCreateFlush(p) /\ UNCHANGED issued
        \/ \E t \in RefSatTables : \E k \in RefSatKeys(t) :
               SatDeleteBegin(p, t, k) /\ UNCHANGED issued
        \/ SatDeleteFlush(p) /\ UNCHANGED issued

Spec == Init /\ [][Next]_vars

-----------------------------------------------------------------------------
(* Satellites: creates, updates and deletes on the eight 1:1 tables        *)

SatVals == {0, 1}
SatVehicleInputs == [crash_record_id : {Key0}, vehicle_year : {None}]
SatPeopleInputs == [crash_record_id : {None}, vehicle_id : {None}, age : {None}]

NextSat ==
    \E p \in Proc :
        \/ CrashesCreateBegin(p, Crash0, T0, T0) /\ UNCHANGED issued
        \/ CrashesCreateFlush(p) /\ UNCHANGED issued
        \/ \E d \in SatVehicleInputs : VehicleCreateBegin(p, d) /\ UNCHANGED issued
        \/ VehicleCreateUnit(p) /\ UNCHANGED issued
        \/ VehicleCreateFlush(p) /\ UNCHANGED issued
        \/ \E d \in SatPeopleInputs : PeopleCreateBegin(p, d) /\ UNCHANGED issued
        \/ PeopleCreateFlush(p) /\ UNCHANGED issued
        \/ \E t \in SatTables : \E k \in RefSatKeys(t), v \in SatVals :
               SatCreateBegin(p, t, k, v) /\ UNCHANGED issued
        \/ SatCreateFlush(p) /\ UNCHANGED issued
        \/ \E t \in SatTables : \E k \in RefSatKeys(t), v \in SatVals :
               SatUpdateBegin(p, t, k, v) /\ UNCHANGED issued
        \/ SatUpdateFlush(p) /\ UNCHANGED issued
        \/ \E t \in SatTables : \E k \in RefSatKeys(t) :
               SatDeleteBegin(p, t, k) /\ UNCHANGED issued
        \/ SatDeleteFlush(p) /\ UNCHANGED issued

SpecSat == Init /\ [][NextSat]_vars

-----------------------------------------------------------------------------
(* Validation: requests that fail a check, among requests that pass        *)

Chars(n) == [i \in 1..n |-> "x"]

\* latitude 95, a future date, a street_name of 256 characters
InvalidCrashInputs == {[Crash0 EXCEPT !.latitude = 950000000],
                       [Crash0 EXCEPT !.incident_date = T1],
                       [Crash0 EXCEPT !.street_name = Some(Chars(256))]}
Latitude95 == [latitude |-> Some(950000000), street_no |-> Some(12)]
ValidatedCrashUpdates == {Latitude95, [street_no |-> Some(12)],
                          [street_name |-> Some(Chars(256)), street_no |-> Some(7)],
                      [incident_date |-> Some(T1), street_no |-> Some(7)]}
\* an unknown crash, a vehicle_year of 1800
ValidatedVehicleInputs == {[crash_record_id |-> Key0, vehicle_year |-> Some(2020)],
                       [crash_record_id |-> MissingCrashId, vehicle_year |-> None],
                       [crash_record_id |-> Key0, vehicle_year |-> Some(1800)]}
ValidatedVehicleUpdates == {[crash_record_id |-> Some(MissingCrashId), vehicle_year |-> Some(2020)],
                        [vehicle_year |-> Some(1800)], [vehicle_year |-> Some(2020)]}
\* an age of 130, an unknown crash, an unknown vehicle
ValidatedPeopleInputs == {[crash_record_id |-> None, vehicle_id |-> None, age |-> Some(130)],
                      [crash_record_id |-> None, vehicle_id |-> None, age |-> Some(30)],
                      [crash_record_id |-> Some(MissingCrashId), vehicle_id |-> None,
                       age |-> Some(30)],
                      [crash_record_id |-> None, vehicle_id |-> Some(MaxId), age |-> None]}
ValidatedPeopleUpdates == {[age |-> Some(130)], [age |-> Some(31)]}
\* a boolean that is none, a vehicle_defect of 101 characters, an unknown vehicle
ValidatedViolationInputs ==
    {[vehicle_id |-> v, cmrc_veh_i |-> b, exceed_speed_limit_i |-> JNull,
      hazmat_present_i |-> JBool(FALSE), vehicle_defect |-> d] :
        v \in {1, MaxId}, b \in {JBool(TRUE), JStr(<<"m", "a", "y", "b", "e">>)},
        d \in {None, Some(Chars(101))}}
ValidatedViolationUpdates ==
    {[cmrc_veh_i |-> JStr(<<"m", "a", "y", "b", "e">>), hazmat_present_i |-> JBool(TRUE)],
     [vehicle_defect |-> Some(Chars(101)), hazmat_present_i |-> JBool(TRUE)],
     [hazmat_present_i |-> JBool(TRUE)]}

NextValid ==
    \E p \in Proc :
        \/ \E d \in {Crash0} \cup InvalidCrashInputs :
               CrashesCreateBegin(p, d, Now, Now) /\ UNCHANGED issued
        \/ CrashesCreateFlush(p) /\ UNCHANGED issued
        \/ \E k \in {Key0, MissingCrashId}, u \in ValidatedCrashUpdates :
               CrashesUpdateBegin(p, k, u, Now, Now) /\ UNCHANGED issued
        \/ CrashesUpdateFlush(p) /\ UNCHANGED issued
        \/ \E d \in ValidatedVehicleInputs : VehicleCreateBegin(p, d) /\ UNCHANGED issued
        \/ VehicleCreateUnit(p) /\ UNCHANGED issued
        \/ VehicleCreateFlush(p) /\ UNCHANGED issued
        \/ \E u \in ValidatedVehicleUpdates : VehicleUpdateBegin(p, 1, u) /\ UNCHANGED issued
        \/ VehicleUpdateFlush(p) /\ UNCHANGED issued
        \/ \E d \in ValidatedPeopleInputs : PeopleCreateBegin(p, d) /\ UNCHANGED issued
        \/ PeopleCreateFlush(p) /\ UNCHANGED issued
        \/ \E u \in ValidatedPeopleUpdates :
               PeopleUpdateBegin(p, PersonIdOf(1), u) /\ UNCHANGED issued
        \/ PeopleUpdateFlush(p) /\ UNCHANGED issued
        \/ \E d \in ValidatedViolationInputs : ViolationsCreateBegin(p, d) /\ UNCHANGED issued
        \/ \E t \in {"crash_date", "driver_info"} :
           \E k \in RefSatKeys(t) \cup {MissingCrashId} :
               SatCreateBegin(p, t, k, 0) /\ UNCHANGED issued
        \/ SatCreateFlush(p) /\ UNCHANGED issued
        \/ \E k \in {1, MaxId}, u \in ValidatedViolationUpdates :
               ViolationsUpdateBegin(p, k, u) /\ UNCHANGED issued
        \/ ViolationsUpdateFlush(p) /\ UNCHANGED issued

SpecValid == Init /\ [][NextValid]_vars

-----------------------------------------------------------------------------
(* Serialized execution: one request at a time, on a store that is empty   *)
(* or holds ingested rows                                                   *)

\* a person the loader stored under its own key; the last-but-one Q key; a
\* vehicle whose crash_unit_id is below its vehicle_id
IngestedStores ==
    {[crashes |-> {}, vehicle |-> {}, people |-> {}],
     [crashes |-> {}, vehicle |-> {},
      people |-> {[person_id |-> <<"O", "0", "0", "0", "0", "0", "0", "1">>,
                   crash_record_id |-> None, vehicle_id |-> None, age |-> None]}],
     [crashes |-> {}, vehicle |-> {},
      people |-> {[person_id |-> PersonIdOf(9999998),
                   crash_record_id |-> None, vehicle_id |-> None, age |-> None]}],
     [crashes |-> {NewCrash(Crash0)},
      vehicle |-> {[vehicle_id |-> 1, crash_unit_id |-> 0, crash_record_id |-> Key0,
                    vehicle_year |-> None]},
      people |-> {}]}

InitSerial ==
    /\ \E st \in IngestedStores :
          /\ crashes = st.crashes
          /\ vehicle = st.vehicle
          /\ people = st.people
    /\ sat = [t \in SatTables |-> {}]
    /\ pc = [p \in Proc |-> "idle"]
    /\ req = [p \in Proc |-> NoReq]
    /\ last = NoResp
    /\ issued = [people |-> 0, vehicle |-> 0]

\* no request is in progress
AllIdle == \A q \in Proc : pc[q] = "idle"

NextSerial ==
    \E p \in Proc :
        \/ AllIdle /\ CrashesCreateBegin(p, Crash0, T0, T0) /\ UNCHANGED issued
        \/ CrashesCreateFlush(p) /\ UNCHANGED issued
        \/ \E d \in IdVehicleInputs :
               AllIdle /\ VehicleCreateBegin(p, d) /\ UNCHANGED issued
        \/ VehicleCreateUnit(p) /\ UNCHANGED issued
        \/ VehicleCreateFlush(p) /\ UNCHANGED issued
        \/ \E k \in VehicleKeys : AllIdle /\ VehicleDeleteBegin(p, k) /\ UNCHANGED issued
        \/ VehicleDeleteLoad(p) /\ UNCHANGED issued
        \/ VehicleDeleteFlush(p) /\ UNCHANGED issued
        \/ \E d \in IdPeopleInputs :
               AllIdle /\ PeopleCreateBegin(p, d) /\ UNCHANGED issued
        \/ PeopleCreateFlush(p) /\ UNCHANGED issued
        \/ \E k \in PersonKeys \cup {PersonIdOf(9999999)} :
               AllIdle /\ PeopleDeleteBegin(p, k) /\ UNCHANGED issued
        \/ PeopleDeleteLoad(p) /\ UNCHANGED issued
        \/ PeopleDeleteFlush(p) /\ UNCHANGED issued

SpecSerial == InitSerial /\ [][NextSerial]_vars

-----------------------------------------------------------------------------
(* Serialized execution of every operation of a table: get, create, update *)
(* and delete of crashes, vehicle, people and driver_info                  *)

\* one update per table, each accepted by its request model
SerialCrashUpdate == [street_no |-> Some(12)]
SerialVehicleUpdate == [vehicle_year |-> Some(2020)]
SerialPeopleUpdate == [age |-> Some(31)]
SerialCrashKeys == {Key0, MissingCrashId}
SerialPersonKeys == PersonKeys \cup {PersonIdOf(9999999)}

NextLookup ==
    \E p \in Proc :
        \/ AllIdle /\ CrashesCreateBegin(p, Crash0, T0, T0) /\ UNCHANGED issued
        \/ CrashesCreateFlush(p) /\ UNCHANGED issued
        \/ \E k \in SerialCrashKeys :
               AllIdle /\ CrashesGet(p, k) /\ UNCHANGED issued
        \/ \E k \in SerialCrashKeys :
               AllIdle /\ CrashesUpdateBegin(p, k, SerialCrashUpdate, T0, T0)
                       /\ UNCHANGED issued
        \/ CrashesUpdateFlush(p) /\ UNCHANGED issued
        \/ \E k \in SerialCrashKeys :
               AllIdle /\ CrashesDeleteBegin(p, k) /\ UNCHANGED issued
        \/ CrashesDeleteLoad(p) /\ UNCHANGED issued
        \/ CrashesDeleteFlush(p) /\ UNCHANGED issued
        \/ \E d \in IdVehicleInputs :
               AllIdle /\ VehicleCreateBegin(p, d) /\ UNCHANGED issued
        \/ VehicleCreateUnit(p) /\ UNCHANGED issued
        \/ VehicleCreateFlush(p) /\ UNCHANGED issued
        \/ \E k \in VehicleKeys : AllIdle /\ VehicleGet(p, k) /\ UNCHANGED issued
        \/ \E k \in VehicleKeys :
               AllIdle /\ VehicleUpdateBegin(p, k, SerialVehicleUpdate) /\ UNCHANGED issued
        \/ VehicleUpdateFlush(p) /\ UNCHANGED issued
        \/ \E k \in VehicleKeys : AllIdle /\ VehicleDeleteBegin(p, k) /\ UNCHANGED issued
        \/ VehicleDeleteLoad(p) /\ UNCHANGED issued
        \/ VehicleDeleteFlush(p) /\ UNCHANGED issued
        \/ \E d \in IdPeopleInputs :
               AllIdle /\ PeopleCreateBegin(p, d) /\ UNCHANGED issued
        \/ PeopleCreateFlush(p) /\ UNCHANGED issued
        \/ \E k \in SerialPersonKeys : AllIdle /\ PeopleGet(p, k) /\ UNCHANGED issued
        \/ \E k \in SerialPersonKeys :
               AllIdle /\ PeopleUpdateBegin(p, k, SerialPeopleUpdate) /\ UNCHANGED issued
        \/ PeopleUpdateFlush(p) /\ UNCHANGED issued
        \/ \E k \in SerialPersonKeys :
               AllIdle /\ PeopleDeleteBegin(p, k) /\ UNCHANGED issued
        \/ PeopleDeleteLoad(p) /\ UNCHANGED issued
        \/ PeopleDeleteFlush(p) /\ UNCHANGED issued
        \/ \E k \in PersonKeys :
               AllIdle /\ SatCreateBegin(p, "driver_info", k, 0) /\ UNCHANGED issued
        \/ SatCreateFlush(p) /\ UNCHANGED issued
        \/ \E k \in PersonKeys :
               AllIdle /\ SatGet(p, "driver_info", k) /\ UNCHANGED issued
        \/ \E k \in PersonKeys :
               AllIdle /\ SatUpdateBegin(p, "driver_info", k, 1) /\ UNCHANGED issued
        \/ SatUpdateFlush(p) /\ UNCHANGED issued
        \/ \E k \in PersonKeys :
               AllIdle /\ SatDeleteBegin(p, "driver_info", k) /\ UNCHANGED issued
        \/ SatDeleteFlush(p) /\ UNCHANGED issued

SpecLookup == InitSerial /\ [][NextLookup]_vars

-----------------------------------------------------------------------------
(* Incident dates: crashes created and updated while the clock goes from   *)
(* T0 to T1                                                                 *)

\* the instant T0 sent with a UTC offset ("...T14:30:00Z")
T0Z == [sec |-> 0, usec |-> 0, tz |-> 0]
ClockValues == {T0, T1}
IncidentDates == {T0, T1, T0Z}
DateCrashInputs == [incident_date : IncidentDates, latitude : {418781000},
                    longitude : {-876298009}, street_no : {None},
                    street_name : {None}]
DateCrashUpdates == {[incident_date |-> Some(t)] : t \in IncidentDates}
                        \cup {[incident_date |-> None]}
DateCrashKeys == {NewCrash(d).crash_record_id : d \in DateCrashInputs}

NextDate ==
    \E p \in Proc :
        \/ \E d \in DateCrashInputs, now1, now2 \in ClockValues :
               CrashesCreateBegin(p, d, now1, now2) /\ UNCHANGED issued
        \/ CrashesCreateFlush(p) /\ UNCHANGED issued
        \/ \E k \in DateCrashKeys, u \in DateCrashUpdates, now1, now2 \in ClockValues :
               CrashesUpdateBegin(p, k, u, now1, now2) /\ UNCHANGED issued
        \/ CrashesUpdateFlush(p) /\ UNCHANGED issued
        \/ \E k \in DateCrashKeys : CrashesDeleteBegin(p, k) /\ UNCHANGED issued
        \/ CrashesDeleteLoad(p) /\ UNCHANGED issued
        \/ CrashesDeleteFlush(p) /\ UNCHANGED issued

SpecDate == Init /\ [][NextDate]_vars

-----------------------------------------------------------------------------
(* Pure functions: the ID generators and the validators called on their    *)
(* own, each call holding its argument and the value returned              *)

Call(p, f, x, y) ==
    /\ pc[p] = "idle"
    /\ Step(p, "returned", [op |-> f, arg |-> x, result |-> y])
    /\ UNCHANGED issued

\* the caller drops the value
Forget(p) ==
    /\ pc[p] = "returned"
    /\ Step(p, "idle", NoReq)
    /\ UNCHANGED issued

\* arguments of generate_crash_record_id: coordinates in units of 1e-6
CrashIdInputs == [incident_date : {T0, T1}, latitude : {41878100},
                  longitude : {-87629800}, street_no : {1, 12},
                  street_name : {<<"M">>, <<"2", "M">>}]

\* values handed to normalize_boolean and to the Optional[bool] fields: each
\* type, in and out of the accepted forms
BooleanStrings ==
    {<<"t", "r", "u", "e">>, <<"T", "R", "U", "E">>, <<"Y", "e", "s">>, <<"n", "o">>,
     <<"F", "a", "l", "s", "e">>, <<"1">>, <<"0">>, <<" ", "y", "e", "s", " ">>,
     <<"\t", "f", "a", "l", "s", "e", "\n">>, <<"y", " ", "e", "s">>, <<"y">>,
     <<"o", "n">>, <<"O", "F", "F">>, <<>>, <<" ">>, <<"2">>,
     <<"m", "a", "y", "b", "e">>}
BooleanInputs ==
    {JNull, JBool(TRUE), JBool(FALSE), JInt(0), JInt(1), JInt(2), JInt(-1),
     JFloat(0), JFloat(10), JFloat(5), JList}
        \cup {JStr(x) : x \in BooleanStrings}

NextPure ==
    \E p \in Proc :
        \/ \E d \in CrashIdInputs :
               Call(p, "generate_crash_record_id", d,
                    generate_crash_record_id(d.incident_date, d.latitude, d.longitude,
                                             d.street_no, d.street_name))
        \/ \E lat \in Latitudes, lon \in Longitudes :
               Call(p, "truncate_coordinates", <<lat, lon>>,
                    truncate_coordinates(lat, lon))
        \/ \E value \in BooleanInputs :
               Call(p, "normalize_boolean", value, normalize_boolean(value))
        \/ \E k \in BooleanAttributes, value \in BooleanInputs :
               Call(p, "create", <<k, value>>, CreateStores(k, value))
        \/ \E k \in BooleanAttributes, value \in BooleanInputs :
               Call(p, "update", <<k, value>>, UpdateStores(k, value))
        \/ Forget(p)

SpecPure == Init /\ [][NextPure]_vars

-----------------------------------------------------------------------------
(* Ranges: ages, vehicle years and coordinates at and beside the bounds of *)
(* their domains, sent to the validators and to the handlers               *)

RangeAges == {-1, 0, 120, 121}
RangeYears == {1899, 1900, current_year + 1, current_year + 2}
\* 90, -90 and 90.0000001 degrees; 180, -180 and 180.0000001 degrees
RangeLatitudes == {900000000, -900000000, 900000001}
RangeLongitudes == {1800000000, -1800000000, 1800000001}
RangeCrashInputs == [incident_date : {T0}, latitude : {900000000, 900000001},
                     longitude : {1800000000, 1800000001}, street_no : {None},
                     street_name : {None}]
Crash90 == [incident_date |-> T0, latitude |-> 900000000, longitude |-> 1800000000,
            street_no |-> None, street_name |-> None]
Key90 == NewCrash(Crash90).crash_record_id
RangeCrashUpdates ==
    {[latitude |-> Some(x)] : x \in {-900000000, 900000001, -900000001}}
        \cup {[longitude |-> Some(x)] : x \in {-1800000000, 1800000001}}
RangeVehicleInputs == [crash_record_id : {Key90},
                       vehicle_year : {None} \cup {Some(y) : y \in RangeYears}]
RangeVehicleUpdates == {[vehicle_year |-> Some(y)] : y \in RangeYears}
RangePeopleInputs == [crash_record_id : {None}, vehicle_id : {None},
                      age : {Some(a) : a \in RangeAges}]
RangePeopleUpdates == {[age |-> Some(a)] : a \in RangeAges}

NextRange ==
    \E p \in Proc :
        \/ \E a \in RangeAges : Call(p, "validate_age", a, validate_age(Some(a)))
        \/ \E y \in RangeYears :
               Call(p, "validate_vehicle_year", y,
                    validate_vehicle_year(Some(y), current_year))
        \/ \E lat \in RangeLatitudes, lon \in RangeLongitudes :
               Call(p, "validate_coordinates", <<lat, lon>>,
                    validate_coordinates(lat, lon))
        \/ Forget(p)
        \/ \E d \in RangeCrashInputs : CrashesCreateBegin(p, d, Now, Now) /\ UNCHANGED issued
        \/ CrashesCreateFlush(p) /\ UNCHANGED issued
        \/ \E u \in RangeCrashUpdates :
               CrashesUpdateBegin(p, Key90, u, Now, Now) /\ UNCHANGED issued
        \/ CrashesUpdateFlush(p) /\ UNCHANGED issued
        \/ \E d \in RangeVehicleInputs : VehicleCreateBegin(p, d) /\ UNCHANGED issued
        \/ VehicleCreateUnit(p) /\ UNCHANGED issued
        \/ VehicleCreateFlush(p) /\ UNCHANGED issued
        \/ \E u \in RangeVehicleUpdates : VehicleUpdateBegin(p, 1, u) /\ UNCHANGED issued
        \/ VehicleUpdateFlush(p) /\ UNCHANGED issued
        \/ \E d \in RangePeopleInputs : PeopleCreateBegin(p, d) /\ UNCHANGED issued
        \/ PeopleCreateFlush(p) /\ UNCHANGED issued
        \/ \E u \in RangePeopleUpdates :
               PeopleUpdateBegin(p, PersonIdOf(1), u) /\ UNCHANGED issued
        \/ PeopleUpdateFlush(p) /\ UNCHANGED issued

SpecRange == Init /\ [][NextRange]_vars

-----------------------------------------------------------------------------
(* Listing: the list handler of a table beside serialized creates, updates *)
(* and deletes of its rows                                                 *)

\* PeopleRouter.list: the limit is checked, then the query reads the table
\* with OFFSET skip LIMIT limit and no ORDER BY, so that the store returns the
\* rows in an order of its own choosing (scan) and the page is cut from it
PeopleList(p, skip, limit) ==
    /\ pc[p] = "idle"
    /\ IF limit > 1000 \/ limit < 0
       THEN Step(p, "returned", [op |-> "PeopleList", skip |-> skip, limit |-> limit,
                                 status |-> 400, rows |-> << >>])
       ELSE \E scan \in [1..Cardinality(people) -> people] :
               /\ \A r \in people : \E i \in DOMAIN scan : scan[i] = r
               /\ LET end == IF skip + limit < Len(scan) THEN skip + limit
                                                         ELSE Len(scan)
                  IN  Step(p, "returned",
                           [op |-> "PeopleList", skip |-> skip, limit |-> limit,
                            status |-> 200,
                            rows |-> [i \in 1..(IF end > skip THEN end - skip ELSE 0)
                                          |-> scan[skip + i].person_id]])
    /\ UNCHANGED issued

Skips == 0..2
Limits == {-1, 0, 1, 2, 1000, 1001}

NextList ==
    \E p \in Proc :
        \/ \E d \in IdPeopleInputs :
               AllIdle /\ PeopleCreateBegin(p, d) /\ UNCHANGED issued
        \/ PeopleCreateFlush(p) /\ UNCHANGED issued
        \/ \E k \in PersonKeys :
               AllIdle /\ PeopleUpdateBegin(p, k, SerialPeopleUpdate) /\ UNCHANGED issued
        \/ PeopleUpdateFlush(p) /\ UNCHANGED issued
        \/ \E k \in PersonKeys : AllIdle /\ PeopleDeleteBegin(p, k) /\ UNCHANGED issued
        \/ PeopleDeleteLoad(p) /\ UNCHANGED issued
        \/ PeopleDeleteFlush(p) /\ UNCHANGED issued
        \/ \E skip \in Skips, limit \in Limits : AllIdle /\ PeopleList(p, skip, limit)
        \/ Forget(p)

SpecList == Init /\ [][NextList]_vars

-----------------------------------------------------------------------------
(* Optional references: serialized People creates and updates whose        *)
(* crash_record_id and vehicle_id are null, name a stored row, name no     *)
(* row, or are the empty string and 0                                      *)

FKCrashValues == {None, Some(Key0), Some(MissingCrashId), Some(<< >>)}
FKVehicleValues == {None, Some(1), Some(MaxId), Some(0)}
FKPeopleInputs == [crash_record_id : FKCrashValues, vehicle_id : FKVehicleValues,
                   age : {None}]
FKPeopleUpdates == {[crash_record_id |-> c] : c \in FKCrashValues}
                       \cup {[vehicle_id |-> v] : v \in FKVehicleValues}

NextFK ==
    \E p \in Proc :
        \/ AllIdle /\ CrashesCreateBegin(p, Crash0, T0, T0) /\ UNCHANGED issued
        \/ CrashesCreateFlush(p) /\ UNCHANGED issued
        \/ \E d \in IdVehicleInputs :
               AllIdle /\ VehicleCreateBegin(p, d) /\ UNCHANGED issued
        \/ VehicleCreateUnit(p) /\ UNCHANGED issued
        \/ VehicleCreateFlush(p) /\ UNCHANGED issued
        \/ \E d \in FKPeopleInputs :
               AllIdle /\ PeopleCreateBegin(p, d) /\ UNCHANGED issued
        \/ PeopleCreateFlush(p) /\ UNCHANGED issued
        \/ \E k \in PersonKeys, u \in FKPeopleUpdates :
               AllIdle /\ PeopleUpdateBegin(p, k, u) /\ UNCHANGED issued
        \/ PeopleUpdateFlush(p) /\ UNCHANGED issued

SpecFK == Init /\ [][NextFK]_vars

-----------------------------------------------------------------------------
(* Missing street attributes: serialized Crash creates that send street_no *)
(* absent or 0 and street_name absent or empty, and deletes.  A create is  *)
(* sent with the street_no that the stored row of its ID does not hold.    *)

StreetInputs == [incident_date : {T0, T1}, latitude : {418781000},
                 longitude : {-876298009},
                 street_no : {None, Some(0)}, street_name : {None, Some(<< >>)}]
StreetKeys == {NewCrash(d).crash_record_id : d \in StreetInputs}

NextStreet ==
    \E p \in Proc :
        \/ \E d \in StreetInputs :
               /\ AllIdle
               /\ \A r \in crashes :
                      r.crash_record_id = NewCrash(d).crash_record_id
                          => r.street_no # d.street_no
               /\ CrashesCreateBegin(p, d, T1, T1)
               /\ UNCHANGED issued
        \/ CrashesCreateFlush(p) /\ UNCHANGED issued
        \/ \E k \in StreetKeys : AllIdle /\ CrashesDeleteBegin(p, k) /\ UNCHANGED issued
        \/ CrashesDeleteLoad(p) /\ UNCHANGED issued
        \/ CrashesDeleteFlush(p) /\ UNCHANGED issued

SpecStreet == Init /\ [][NextStreet]_vars

-----------------------------------------------------------------------------
(* Generated identifiers: properties                                       *)

\* C1: under every interleaving of concurrent People creates and concurrent
\* Vehicle creates, no two committed People rows share a person_id and no two
\* committed Vehicle rows share a vehicle_id.
GeneratedIdsUnique ==
    /\ \A a, b \in people : a.person_id = b.person_id => a = b
    /\ \A a, b \in vehicle : a.vehicle_id = b.vehicle_id => a = b

\* a People create that read the same max+1 as a concurrent create, and found
\* the identifier committed when it came to insert
GeneratedIdRaceLost ==
    /\ last.op = "PeopleCreate"
    /\ last.status = 400
    /\ ~IsNone(last.key)
    /\ Val(last.key) \in PersonIds
    /\ NextPersonNum = PersonNum(Val(last.key)) + 1

\* C2: a person_id or vehicle_id once held by a committed row is never given to
\* a later row, even after that row was deleted: each new row's identifier is
\* strictly greater than every identifier committed before it.
GeneratedIdsNeverReused ==
    [][ /\ \A r \in people' : r.person_id \notin PersonIds =>
               PersonNum(r.person_id) > issued.people
        /\ \A r \in vehicle' : r.vehicle_id \notin VehicleIds =>
               r.vehicle_id > issued.vehicle ]_vars

-----------------------------------------------------------------------------
(* Crash records: properties                                               *)

\* the key generate_crash_record_id gives the attributes a row holds now
RecomputedKey(r) ==
    generate_crash_record_id(
        Val(r.incident_date), r.latitude, r.longitude,
        IF ~IsNone(r.street_no) THEN Val(r.street_no) ELSE 0,
        IF ~IsNone(r.street_name) THEN Val(r.street_name) ELSE <<>>)

\* C3: after any sequence of Crash creates, updates and deletes, every stored
\* Crash row's crash_record_id equals the key recomputed from the row's stored
\* incident_date, latitude, longitude, street_no and street_name (a missing
\* street_no taken as 0, a missing street_name as the empty string).
CrashKeyRecomputable ==
    \A r \in crashes : r.crash_record_id = RecomputedKey(r)

\* the attributes of a crash row other than its key
CrashAttributes(r) ==
    <<r.incident_date, r.latitude, r.longitude, r.street_no, r.street_name>>

\* C4: when two Crash creates with identical attributes run concurrently, both
\* past the existence lookup, one row is committed and not overwritten, and the
\* create that comes second to its insert fails with AlreadyExists (409).
ConcurrentCrashCreateConflicts ==
    [][ \A p \in Proc :
          ( /\ pc[p] = "CrashesCreateFlush"
            /\ \E r \in crashes : /\ r.crash_record_id = req[p].row.crash_record_id
                                  /\ CrashAttributes(r) = CrashAttributes(req[p].row)
            /\ pc'[p] = "idle" )
          => /\ last'.status = 409
             /\ crashes' = crashes ]_vars

\* C5: in serialized execution, a create of a Crash whose attributes (after
\* coordinate truncation) equal those of a stored Crash fails with
\* AlreadyExists (409) and leaves the store unchanged.  A create that gets past
\* the lookup has not failed, and one the lookup rejects answers 409.
SerialDuplicateCrashRejected ==
    [][ (\A q \in Proc : pc[q] = "idle") =>
          /\ \A p \in Proc :
                pc'[p] = "CrashesCreateFlush" =>
                    ~\E r \in crashes : CrashAttributes(r) = CrashAttributes(req'[p].row)
          /\ (last'.op = "CrashesCreate" /\ ~IsNone(last'.key)) =>
                (last'.status = 409 /\ crashes' = crashes) ]_vars

-----------------------------------------------------------------------------
(* References and cascades: properties                                     *)

\* C6: after any interleaving of creates, updates and deletes on all entity
\* types every stored child row references an existing parent: each satellite
\* its Crash, Vehicle or People row, each Vehicle its Crash, and every non-null
\* crash_record_id / vehicle_id of a People row an existing Crash / Vehicle.
EveryReferenceResolves ==
    /\ \A t \in SatTables : \A r \in sat[t] : r.key \in ParentIds(t)
    /\ \A r \in vehicle : r.crash_record_id \in CrashIds
    /\ \A r \in people :
          /\ ~IsNone(r.crash_record_id) => Val(r.crash_record_id) \in CrashIds
          /\ ~IsNone(r.vehicle_id) => Val(r.vehicle_id) \in VehicleIds

\* a satellite create that found its parent at the check and came to insert
\* after the parent was deleted: the store refused the row
ChildRefusedAfterParentDelete ==
    /\ last.op = "SatCreate"
    /\ last.status = 400
    /\ Val(last.key)[2] \notin ParentIds(Val(last.key)[1])
    /\ Val(last.key)[2] \notin SatKeys(Val(last.key)[1])

\* the vehicles of the crashes in ks
VehiclesOf(ks) == {r.vehicle_id : r \in {v \in vehicle : v.crash_record_id \in ks}}

\* C7: the step that deletes a parent removes every dependent row it owns: with
\* a Crash its four satellites, its Vehicles and those vehicles' satellites,
\* with a Vehicle its satellites, with a People row its DriverInfo; and in no
\* state is one of these children present without its parent.
OwnedRowsGoWithParent ==
    /\ [](/\ \A t \in SatTables : SatKeys(t) \subseteq ParentIds(t)
          /\ \A r \in vehicle : r.crash_record_id \in CrashIds)
    /\ [][ LET goneC == CrashIds \ CrashIds'
               goneV == VehicleIds \ VehicleIds'
               goneP == PersonIds \ PersonIds'
           IN  /\ VehiclesOf(goneC) \subseteq goneV
               /\ \A t \in SatTables :
                     {r.key : r \in sat'[t]} \cap
                        (IF SatParent(t) = "crashes" THEN goneC
                         ELSE IF SatParent(t) = "vehicle" THEN goneV ELSE goneP) = {} ]_vars

\* a Crash delete about to flush that loaded a vehicle and a satellite of the
\* crash, and whose statements remove them together with the crash
CascadingCrashDelete ==
    \E p \in Proc :
        /\ pc[p] = "CrashesDeleteFlush"
        /\ req[p].vehicles # {}
        /\ req[p].vehicles \subseteq VehicleIds
        /\ \E t \in CrashSatTables : req[p].ormSat[t] # {} /\ req[p].ormSat[t] \subseteq SatKeys(t)
        /\ LET f == DeleteFlush({req[p].key}, req[p].vehicles, {}, req[p].ormSat,
                                req[p].nullCrash, req[p].nullVeh)
           IN  /\ ~f.stale /\ ~f.broken
               /\ f.vehicle = {}
               /\ \A t \in SatTables : f.sat[t] = {}

-----------------------------------------------------------------------------
(* Satellites: properties                                                  *)

\* C9: in every reachable state, under any interleaving of concurrent creates,
\* each satellite table holds at most one row per key: one VehicleViolations,
\* VehicleModels and VehicleManeuvers row per vehicle_id, one row of each crash
\* satellite type per crash_record_id, one DriverInfo row per person_id.
OneSatellitePerKey ==
    \A t \in SatTables : \A a, b \in sat[t] : a.key = b.key => a = b

\* two creates of the same satellite key were in flight together, both past the
\* lookup; one has committed its row and the other is about to insert
SatelliteCreateRace ==
    \E p \in Proc :
        /\ pc[p] = "SatCreateFlush"
        /\ last.op = "SatCreate"
        /\ last.status = 201
        /\ last.key = Some(<<req[p].t, req[p].row.key>>)
        /\ \E r \in sat[req[p].t] : r.key = req[p].row.key /\ r.val # req[p].row.val

\* C10: whenever a create of a 1:1 satellite is rejected because a row with
\* that key already exists, the failure is AlreadyExists (409) and the existing
\* row is unchanged, both when the row existed before the call and when a
\* concurrent create inserted it between the call's lookup and its insert.
SatelliteDuplicateAnswers409 ==
    [][ ( /\ last'.op = "SatCreate"
          /\ last'.status # 201
          /\ ~IsNone(last'.key)
          /\ Val(last'.key)[2] \in SatKeys(Val(last'.key)[1]) )
        => /\ last'.status = 409
           /\ sat' = sat ]_vars

-----------------------------------------------------------------------------
(* Validation: properties                                                  *)

Tables == <<crashes, vehicle, people, sat>>

\* C11: every create or update that returns a validation failure (400 for
\* OutOfRange, TooLong, FutureDate and InvalidBoolean, 404 for
\* ReferenceNotFound and NotFound, 409 for AlreadyExists) leaves every table
\* exactly as it was; no step of a create or update that has not returned
\* writes; and an update of a stored Crash with latitude 95 and a valid
\* street_no answers 400 and changes no attribute of any row.
ValidationFailureWritesNothing ==
    [][ /\ (last'.op \in {"CrashesCreate", "CrashesUpdate", "VehicleCreate",
                          "VehicleUpdate", "PeopleCreate", "PeopleUpdate",
                          "SatCreate", "SatUpdate"}
               /\ last'.status \in {400, 404, 409})
            => Tables' = Tables
        /\ last' = NoResp => Tables' = Tables
        /\ \A p \in Proc :
              (Key0 \in CrashIds /\ CrashesUpdateBegin(p, Key0, Latitude95, Now, Now))
                  => (last'.status = 400 /\ Tables' = Tables) ]_vars

\* a stored Crash was sent latitude 95 with street_no 12, and was refused
Latitude95Refused ==
    /\ last = Resp("CrashesUpdate", 400, None)
    /\ \E r \in crashes : r.crash_record_id = Key0 /\ r.street_no # Some(12)

\* C12: a create of a child row whose required reference names no stored
\* parent (a Vehicle or a crash satellite with an unknown crash_record_id, a
\* vehicle satellite with an unknown vehicle_id, DriverInfo with an unknown
\* person_id) writes nothing, and answers 404 when the request model accepts
\* the body (400 when it does not); the same holds of an update that sets a
\* stored Vehicle's crash_record_id to an unknown crash.
UnknownParentRefused ==
    [][ \A p \in Proc :
          /\ last'.op \in {"none", "VehicleCreate"} =>
                \A d \in ValidatedVehicleInputs :
                    (d.crash_record_id \notin CrashIds /\ VehicleCreateBegin(p, d))
                        => /\ Tables' = Tables
                           /\ last'.status = IF CreateVehicleValid(d) THEN 404 ELSE 400
          /\ last'.op \in {"none", "SatCreate"} =>
                /\ \A t \in {"crash_date", "driver_info"} :
                   \A k \in (PersonKeys \cup CrashKeys) \ ParentIds(t) :
                        SatCreateBegin(p, t, k, 0)
                            => (Tables' = Tables /\ last'.status = 404)
                /\ \A d \in ValidatedViolationInputs :
                        (d.vehicle_id \notin VehicleIds /\ ViolationsCreateBegin(p, d))
                            => /\ Tables' = Tables
                               /\ last'.status = IF ViolationBodyValid(d) THEN 404 ELSE 400
          /\ last'.op \in {"none", "VehicleUpdate"} =>
                \A k \in VehicleIds, u \in ValidatedVehicleUpdates :
                    ( /\ "crash_record_id" \in DOMAIN u
                      /\ Val(u.crash_record_id) \notin CrashIds
                      /\ VehicleUpdateBegin(p, k, u) )
                        => /\ Tables' = Tables
                           /\ last'.status = IF UpdateVehicleValid(u) THEN 404 ELSE 400 ]_vars

\* a stored Vehicle was sent the key of a crash that is not stored
UnknownParentSeen ==
    /\ last.op = "VehicleUpdate"
    /\ last.status = 404
    /\ Val(last.key) \in VehicleIds
    /\ MissingCrashId \notin CrashIds

-----------------------------------------------------------------------------
(* Serialized execution: properties                                        *)

PersonIdSpaceExhausted ==
    [][ LET Q9999999 == <<"Q", "9", "9", "9", "9", "9", "9", "9">>
        IN  /\ Q9999999 \in PersonIds =>
                  /\ people' \subseteq people
                  /\ \A p \in Proc : pc'[p] # "PeopleCreateFlush"
                  /\ last'.op = "PeopleCreate" =>
                        (last'.status = 500 /\ Tables' = Tables)
            /\ \A r \in people' \ people :
                  /\ Len(r.person_id) = 8
                  /\ r.person_id[1] = "Q"
                  /\ \A i \in 2..8 : r.person_id[i] \in DigitChars
                  /\ ParseNat(SubSeq(r.person_id, 2, 8)) >= 1 ]_vars

\* Q9999999 is stored and a People create was refused
ExhaustedCreateRefused ==
    /\ last.op = "PeopleCreate"
    /\ last.status = 500
    /\ <<"Q", "9", "9", "9", "9", "9", "9", "9">> \in PersonIds

-----------------------------------------------------------------------------
(* Pure functions: properties                                              *)

\* C15: two calls of generate_crash_record_id whose arguments differ in at
\* least one of incident_date, latitude, longitude, street_no and street_name
\* return different IDs (the digest taken as injective): the concatenation
\* date || lat || lon || street_no || street_name is injective.
CrashIdInjective ==
    \A p, q \in Proc :
        ( /\ req[p].op = "generate_crash_record_id"
          /\ req[q].op = "generate_crash_record_id"
          /\ req[p].arg # req[q].arg )
            => req[p].result # req[q].result

\* C16: truncating an already truncated coordinate pair returns the same
\* pair, for every latitude and longitude in range given with more than 6
\* decimals; the stored coordinates and the 6-decimal strings that are hashed
\* are the same after a second truncation.
TruncationIdempotent ==
    \A p \in Proc :
        req[p].op = "truncate_coordinates" =>
            LET once == req[p].result
                twice == truncate_coordinates(10 * once[1], 10 * once[2])
            IN  /\ twice = once
                /\ Fixed6(twice[1]) = Fixed6(once[1])
                /\ Fixed6(twice[2]) = Fixed6(once[2])

-----------------------------------------------------------------------------
(* Updates: properties                                                     *)

\* new holds the rows of old, the row keyed k changed in the columns of set
\* at most and holding set's values there
OnlySetChanged(old, new, key, k, set) ==
    /\ {r \in new : r[key] # k} = {r \in old : r[key] # k}
    /\ \A r \in old : r[key] = k =>
          \E r2 \in new :
              /\ r2[key] = k
              /\ \A c \in DOMAIN r \ DOMAIN set : r2[c] = r[c]
              /\ \A c \in DOMAIN r \cap DOMAIN set : r2[c] = set[c]
    /\ \A r2 \in new : r2[key] = k => k \in {r[key] : r \in old}

\* C17: an update changes the attributes its request names and no others: the
\* columns an update writes are among those named, the attributes not
\* supplied keep their stored values, the primary key of the row is the one
\* addressed before and after, and no other row of any table is modified.
UpdateChangesOnlyNamed ==
    [][ \A p \in Proc :
          /\ (last'.op = "none" /\ pc'[p] = "CrashesUpdateFlush") =>
                \A k \in {Key0, MissingCrashId}, u \in ValidatedCrashUpdates :
                    CrashesUpdateBegin(p, k, u, Now, Now) =>
                        (req'[p].key = k /\ DOMAIN req'[p].set \subseteq DOMAIN u)
          /\ (last'.op = "none" /\ pc'[p] = "VehicleUpdateFlush") =>
                \A k \in VehicleKeys, u \in ValidatedVehicleUpdates :
                    VehicleUpdateBegin(p, k, u) =>
                        (req'[p].key = k /\ DOMAIN req'[p].set \subseteq DOMAIN u)
          /\ (last'.op = "none" /\ pc'[p] = "PeopleUpdateFlush") =>
                \A k \in PersonKeys, u \in ValidatedPeopleUpdates :
                    PeopleUpdateBegin(p, k, u) =>
                        (req'[p].key = k /\ DOMAIN req'[p].set \subseteq DOMAIN u)
          /\ (last'.op = "none" /\ pc'[p] = "ViolationsUpdateFlush") =>
                \A k \in VehicleKeys, u \in ValidatedViolationUpdates :
                    ViolationsUpdateBegin(p, k, u) =>
                        (req'[p].key = k /\ DOMAIN req'[p].set \subseteq DOMAIN u)
          /\ (pc[p] = "CrashesUpdateFlush" /\ pc'[p] = "idle") =>
                /\ OnlySetChanged(crashes, crashes', "crash_record_id",
                                  req[p].key, req[p].set)
                /\ UNCHANGED <<vehicle, people, sat>>
          /\ (pc[p] = "VehicleUpdateFlush" /\ pc'[p] = "idle") =>
                /\ OnlySetChanged(vehicle, vehicle', "vehicle_id", req[p].key, req[p].set)
                /\ UNCHANGED <<crashes, people, sat>>
          /\ (pc[p] = "PeopleUpdateFlush" /\ pc'[p] = "idle") =>
                /\ OnlySetChanged(people, people', "person_id", req[p].key, req[p].set)
                /\ UNCHANGED <<crashes, vehicle, sat>>
          /\ (pc[p] = "ViolationsUpdateFlush" /\ pc'[p] = "idle") =>
                /\ \A t \in SatTables \ {"vehicle_violations"} : sat'[t] = sat[t]
                /\ {r.key : r \in sat'["vehicle_violations"]}
                     = {r.key : r \in sat["vehicle_violations"]}
                /\ \A r \in sat["vehicle_violations"] :
                   \E r2 \in sat'["vehicle_violations"] :
                      /\ r2.key = r.key
                      /\ r.key # req[p].key => r2 = r
                      /\ \A c \in DOMAIN r.val \ DOMAIN req[p].set : r2.val[c] = r.val[c]
                /\ UNCHANGED <<crashes, vehicle, people>> ]_vars

\* a stored violations row with a vehicle_defect was sent hazmat_present_i
\* alone, and the update was written
OneBooleanUpdated ==
    /\ last.op = "SatUpdate"
    /\ last.status = 200
    /\ \E r \in sat["vehicle_violations"] :
          /\ r.val.hazmat_present_i = Some(TRUE)
          /\ r.val.cmrc_veh_i = Some(TRUE)

-----------------------------------------------------------------------------
(* Lookup by key: properties                                               *)

\* C18: an update or a delete addressed to a key its table does not hold
\* answers 404 and leaves every table as it was.  A delete addressed to a key
\* the table holds goes on to its flush and answers its confirmation (200), the
\* key is then not in the table, and a get of that key answers 404.
AbsentKeyNotFound ==
    [][ \A p \in Proc :
          /\ last'.op \in {"none", "CrashesUpdate"} =>
                \A k \in SerialCrashKeys \ CrashIds :
                    CrashesUpdateBegin(p, k, SerialCrashUpdate, T0, T0) =>
                        (last'.status = 404 /\ Tables' = Tables)
          /\ last'.op \in {"none", "VehicleUpdate"} =>
                \A k \in VehicleKeys \ VehicleIds :
                    VehicleUpdateBegin(p, k, SerialVehicleUpdate) =>
                        (last'.status = 404 /\ Tables' = Tables)
          /\ last'.op \in {"none", "PeopleUpdate"} =>
                \A k \in SerialPersonKeys \ PersonIds :
                    PeopleUpdateBegin(p, k, SerialPeopleUpdate) =>
                        (last'.status = 404 /\ Tables' = Tables)
          /\ last'.op \in {"none", "SatUpdate"} =>
                \A k \in PersonKeys \ SatKeys("driver_info") :
                    SatUpdateBegin(p, "driver_info", k, 1) =>
                        (last'.status = 404 /\ Tables' = Tables)
          /\ last'.op \in {"none", "CrashesDelete"} =>
                /\ \A k \in SerialCrashKeys \ CrashIds :
                      CrashesDeleteBegin(p, k) =>
                          (last'.status = 404 /\ Tables' = Tables)
                /\ \A k \in CrashIds :
                      CrashesDeleteBegin(p, k) => pc'[p] = "CrashesDeleteLoad"
          /\ last'.op \in {"none", "VehicleDelete"} =>
                /\ \A k \in VehicleKeys \ VehicleIds :
                      VehicleDeleteBegin(p, k) =>
                          (last'.status = 404 /\ Tables' = Tables)
                /\ \A k \in VehicleIds :
                      VehicleDeleteBegin(p, k) => pc'[p] = "VehicleDeleteLoad"
          /\ last'.op \in {"none", "PeopleDelete"} =>
                /\ \A k \in SerialPersonKeys \ PersonIds :
                      PeopleDeleteBegin(p, k) =>
                          (last'.status = 404 /\ Tables' = Tables)
                /\ \A k \in PersonIds :
                      PeopleDeleteBegin(p, k) => pc'[p] = "PeopleDeleteLoad"
          /\ last'.op \in {"none", "SatDelete"} =>
                /\ \A k \in PersonKeys \ SatKeys("driver_info") :
                      SatDeleteBegin(p, "driver_info", k) =>
                          (last'.status = 404 /\ Tables' = Tables)
                /\ \A k \in SatKeys("driver_info") :
                      SatDeleteBegin(p, "driver_info", k) => pc'[p] = "SatDeleteFlush"
          /\ (pc[p] = "CrashesDeleteFlush" /\ pc'[p] = "idle") =>
                (last'.status = 200 /\ req[p].key \notin CrashIds')
          /\ (pc[p] = "VehicleDeleteFlush" /\ pc'[p] = "idle") =>
                (last'.status = 200 /\ req[p].key \notin VehicleIds')
          /\ (pc[p] = "PeopleDeleteFlush" /\ pc'[p] = "idle") =>
                (last'.status = 200 /\ req[p].key \notin PersonIds')
          /\ (pc[p] = "SatDeleteFlush" /\ pc'[p] = "idle") =>
                (last'.status = 200 /\ req[p].key \notin {r.key : r \in sat'[req[p].t]})
          /\ (last.status = 200 /\ last.op = "CrashesDelete" /\ last'.op = "CrashesGet"
                /\ last'.key = last.key) => last'.status = 404
          /\ (last.status = 200 /\ last.op = "VehicleDelete" /\ last'.op = "VehicleGet"
                /\ last'.key = last.key) => last'.status = 404
          /\ (last.status = 200 /\ last.op = "PeopleDelete" /\ last'.op = "PeopleGet"
                /\ last'.key = last.key) => last'.status = 404
          /\ (last.status = 200 /\ last.op = "SatDelete" /\ last'.op = "SatGet"
                /\ last'.key = last.key) => last'.status = 404 ]_vars

\* the crash that had a vehicle was deleted with its confirmation: neither
\* is stored
CrashDeletedWithVehicle ==
    /\ last.op = "CrashesDelete"
    /\ last.status = 200
    /\ last.key = Some(Key0)
    /\ crashes = {}
    /\ vehicle = {}

-----------------------------------------------------------------------------
(* Boolean normalization: properties                                       *)

\* s is the word w but for the case of its letters
Caseless(s, w) ==
    /\ Len(s) = Len(w)
    /\ \A i \in 1..Len(w) :
          \/ s[i] = w[i]
          \/ <<w[i], s[i]>> \in {<<"t", "T">>, <<"r", "R">>, <<"u", "U">>, <<"e", "E">>,
                                 <<"y", "Y">>, <<"s", "S">>, <<"f", "F">>, <<"a", "A">>,
                                 <<"l", "L">>, <<"n", "N">>, <<"o", "O">>}

TrueWords == {<<"t", "r", "u", "e">>, <<"1">>, <<"y", "e", "s">>}
FalseWords == {<<"f", "a", "l", "s", "e">>, <<"0">>, <<"n", "o">>}

\* s is c with blanks, tabs and newlines before and after it
Padded(s, c) ==
    \E i \in 1..(Len(s) + 1), j \in 0..Len(s) :
        /\ c = SubSeq(s, i, j)
        /\ \A k \in 1..(i - 1) : s[k] \in {" ", "\t", "\n"}
        /\ \A k \in (j + 1)..Len(s) : s[k] \in {" ", "\t", "\n"}

IsOne(x) == (x.type = "int" /\ x.n = 1) \/ (x.type = "float" /\ x.n = 10)
IsZero(x) == x.type \in {"int", "float"} /\ x.n = 0

\* C19 as stated: normalize_boolean returns a native boolean as it is, true and
\* false for the numbers 1 and 0 and for the strings true, 1, yes and false, 0,
\* no in any case, and fails for every other value that is not null.
NormalizeBooleanClosedSet ==
    \A p \in Proc : req[p].op = "normalize_boolean" =>
        LET x == req[p].arg
            y == req[p].result
            yes == \/ x.type = "bool" /\ x.b
                   \/ IsOne(x)
                   \/ x.type = "str" /\ \E w \in TrueWords : Caseless(x.s, w)
            no == \/ x.type = "bool" /\ ~x.b
                  \/ IsZero(x)
                  \/ x.type = "str" /\ \E w \in FalseWords : Caseless(x.s, w)
        IN  x.type # "null" =>
               /\ yes => (y.ok /\ y.v = Some(TRUE))
               /\ no => (y.ok /\ y.v = Some(FALSE))
               /\ ~(yes \/ no) => ~y.ok

\* C19 amended: the strings are compared in any case and with the blanks
\* around them removed; every other value that is not null fails.
NormalizeBooleanTrimmed ==
    \A p \in Proc : req[p].op = "normalize_boolean" =>
        LET x == req[p].arg
            y == req[p].result
            Among(words) == \E w \in words, c \in {SubSeq(x.s, i, j) :
                                                   i \in 1..(Len(x.s) + 1),
                                                   j \in 0..Len(x.s)} :
                                Padded(x.s, c) /\ Caseless(c, w)
            yes == \/ x.type = "bool" /\ x.b
                   \/ IsOne(x)
                   \/ x.type = "str" /\ Among(TrueWords)
            no == \/ x.type = "bool" /\ ~x.b
                  \/ IsZero(x)
                  \/ x.type = "str" /\ Among(FalseWords)
        IN  x.type # "null" =>
               /\ yes => (y.ok /\ y.v = Some(TRUE))
               /\ no => (y.ok /\ y.v = Some(FALSE))
               /\ ~(yes \/ no) => ~y.ok

\* " yes " was normalized to true
PaddedYesAccepted ==
    \E p \in Proc :
        /\ req[p].op = "normalize_boolean"
        /\ req[p].arg.type = "str"
        /\ req[p].arg.s = <<" ", "y", "e", "s", " ">>
        /\ req[p].result.ok
        /\ req[p].result.v = Some(TRUE)

\* C20: for each boolean attribute of vehicle_violations and
\* crash_circumstances and each value sent for it, create and update either
\* both refuse the value or both store the same boolean (or both null).
CreateAndUpdateNormalizeAlike ==
    \A p, q \in Proc :
        (/\ req[p].op = "create"
         /\ req[q].op = "update"
         /\ req[p].arg = req[q].arg)
        => (/\ req[p].result.ok = req[q].result.ok
            /\ req[p].result.v = req[q].result.v)

\* "on" sent for hazmat_present_i was stored as true by create and by update
OnStoredByBothPaths ==
    \E p, q \in Proc :
        /\ req[p].op = "create"
        /\ req[q].op = "update"
        /\ req[p].arg = <<"hazmat_present_i", JStr(<<"o", "n">>)>>
        /\ req[q].arg = req[p].arg
        /\ req[p].result = Ok(Some(TRUE))
        /\ req[q].result = Ok(Some(TRUE))

-----------------------------------------------------------------------------
(* Incident dates: properties                                              *)

\* C21: a Crash create or update answers its validation failure (400) exactly
\* when the incident_date sent is later than the clock read by the
\* validation; a date that is not later is accepted (the create goes on to its
\* insert or answers its duplicate, the update goes on to its write), and the
\* date a create or update is about to write is not later than that clock.
FutureDateExactly ==
    [][ \A p \in Proc :
          /\ last'.op \in {"none", "CrashesCreate"} =>
                \A d \in DateCrashInputs, now1, now2 \in ClockValues :
                    CrashesCreateBegin(p, d, now1, now2) =>
                        /\ (last'.status = 400) <=> Later(d.incident_date, now1)
                        /\ ~Later(d.incident_date, now1) => last'.status \in {0, 409}
                        /\ pc'[p] = "CrashesCreateFlush" =>
                              ~Later(Val(req'[p].row.incident_date), now1)
          /\ last'.op \in {"none", "CrashesUpdate"} =>
                \A k \in CrashIds, u \in DateCrashUpdates, now1, now2 \in ClockValues :
                    CrashesUpdateBegin(p, k, u, now1, now2) =>
                        LET later == /\ ~IsNone(u.incident_date)
                                     /\ Later(Val(u.incident_date), now1)
                        IN  /\ (last'.status = 400) <=> later
                            /\ ~later => last'.status \in {0, 200}
                            /\ (pc'[p] = "CrashesUpdateFlush"
                                  /\ "incident_date" \in DOMAIN req'[p].set
                                  /\ ~IsNone(req'[p].set.incident_date)) =>
                                  ~Later(Val(req'[p].set.incident_date), now1) ]_vars

-----------------------------------------------------------------------------
(* Ranges: properties                                                      *)

\* C22: validate_age passes exactly the ages 0..120, validate_vehicle_year
\* exactly the years 1900..current_year + 1 and validate_coordinates exactly
\* the latitudes -90..90 with the longitudes -180..180, bounds included; and
\* no stored age, vehicle_year, latitude or longitude is outside its range.
RangesInclusive ==
    /\ \A p \in Proc :
          /\ req[p].op = "validate_age" =>
                (req[p].result <=> (0 <= req[p].arg /\ req[p].arg <= 120))
          /\ req[p].op = "validate_vehicle_year" =>
                (req[p].result <=> (1900 <= req[p].arg /\ req[p].arg <= 2025))
          /\ req[p].op = "validate_coordinates" =>
                (req[p].result <=>
                    /\ -900000000 <= req[p].arg[1] /\ req[p].arg[1] <= 900000000
                    /\ -1800000000 <= req[p].arg[2] /\ req[p].arg[2] <= 1800000000)
    /\ \A r \in people : r.age = None \/ (0 <= Val(r.age) /\ Val(r.age) <= 120)
    /\ \A r \in vehicle :
          r.vehicle_year = None
              \/ (1900 <= Val(r.vehicle_year) /\ Val(r.vehicle_year) <= 2025)
    /\ \A r \in crashes :
          /\ -90000000 <= r.latitude /\ r.latitude <= 90000000
          /\ -180000000 <= r.longitude /\ r.longitude <= 180000000

\* a crash at latitude -90 and longitude 180 and a person aged 120 are stored
BoundsStored ==
    /\ \E r \in crashes : r.latitude = -90000000 /\ r.longitude = 180000000
    /\ \E r \in people : r.age = Some(120)

-----------------------------------------------------------------------------
(* Listing: properties                                                     *)

\* the person_ids of the stored rows from position first to position last of
\* the order in which the rows were inserted; in a serialized execution every
\* create takes a number above all stored ones, so that this is the order of
\* the numbers
InsertionPage(first, last_) ==
    LET Number(id) == ParseNat(SubSeq(id, 2, 8))
        RECURSIVE Sorted(_)
        Sorted(S) == IF S = {} THEN << >>
                     ELSE LET m == CHOOSE x \in S :
                                       \A y \in S : Number(x) <= Number(y)
                          IN  <<m>> \o Sorted(S \ {m})
        all == Sorted({r.person_id : r \in people})
    IN  SubSeq(all, first, IF last_ < Len(all) THEN last_ ELSE Len(all))

\* C23: a list call with limit in 0..1000 returns the rows at positions
\* skip .. skip + limit - 1 of the insertion order (fewer where the table ends,
\* none for limit 0) and never more than limit rows; a limit below 0 or above
\* 1000 is answered 400 with no rows.
ListPagesInInsertionOrder ==
    \A p \in Proc :
        req[p].op = "PeopleList" =>
            IF req[p].limit >= 0 /\ req[p].limit <= 1000
            THEN /\ req[p].status = 200
                 /\ req[p].rows = InsertionPage(req[p].skip + 1,
                                                req[p].skip + req[p].limit)
                 /\ Len(req[p].rows) <= req[p].limit
            ELSE /\ req[p].status = 400
                 /\ req[p].rows = << >>

-----------------------------------------------------------------------------
(* The unit counter: properties                                            *)

\* C24: under every interleaving of concurrent Vehicle creates and deletes no
\* two committed Vehicle rows share a crash_unit_id.
CrashUnitIdsDistinct ==
    \A a \in vehicle : \A b \in vehicle :
        a.crash_unit_id = b.crash_unit_id => a.vehicle_id = b.vehicle_id

\* C25: when two concurrent People (or Vehicle) creates have computed the same
\* candidate ID, the one that comes second to its insert fails with
\* AlreadyExists (409), is not retried, and leaves the store as it was, so
\* that exactly one of the two commits.
SameCandidateConflicts ==
    [][ \A p \in Proc :
          /\ ( /\ pc[p] = "PeopleCreateFlush"
               /\ req[p].row.person_id \in PersonIds
               /\ pc'[p] # pc[p] )
             => /\ pc'[p] = "idle"
                /\ last'.status = 409
                /\ Tables' = Tables
          /\ ( /\ pc[p] = "VehicleCreateFlush"
               /\ req[p].row.vehicle_id \in VehicleIds
               /\ pc'[p] # pc[p] )
             => /\ pc'[p] = "idle"
                /\ last'.status = 409
                /\ Tables' = Tables ]_vars

-----------------------------------------------------------------------------
(* Vehicle years: properties                                               *)

\* C26: an update of a stored Vehicle with a vehicle_year v inside
\* 1900..current_year + 1 succeeds, and the vehicle_year it leaves stored, or
\* goes on to write, is v, the value a create given v stores.
UpdateStoresVehicleYear ==
    [][ \A p \in Proc :
          last'.op \in {"none", "VehicleUpdate"} =>
              \A k \in VehicleIds, u \in RangeVehicleUpdates :
                  ( /\ Val(u.vehicle_year) >= 1900
                    /\ Val(u.vehicle_year) <= current_year + 1
                    /\ VehicleUpdateBegin(p, k, u) )
                  => LET row == CHOOSE r \in vehicle : r.vehicle_id = k
                     IN  IF pc'[p] = "VehicleUpdateFlush"
                         THEN /\ "vehicle_year" \in DOMAIN req'[p].set
                              /\ req'[p].set.vehicle_year = u.vehicle_year
                         ELSE /\ last'.status = 200
                              /\ row.vehicle_year = u.vehicle_year ]_vars

-----------------------------------------------------------------------------
(* Optional references: properties                                         *)

\* the optional reference names no stored row of its table
NamesNoRow(o, ids) == ~IsNone(o) /\ Val(o) \notin ids

\* C27: a People create or update checks its optional references for every
\* non-null value: a null is accepted, and every non-null crash_record_id or
\* vehicle_id that names no stored row, the empty string and 0 included, is
\* answered 404 with nothing written.
OptionalReferencesChecked ==
    [][ \A p \in Proc :
          /\ last'.op \in {"none", "PeopleCreate"} =>
                \A d \in FKPeopleInputs :
                    (AllIdle /\ PeopleCreateBegin(p, d)) =>
                        IF NamesNoRow(d.crash_record_id, CrashIds)
                               \/ NamesNoRow(d.vehicle_id, VehicleIds)
                        THEN last'.status = 404 /\ Tables' = Tables
                        ELSE last'.status # 404
          /\ last'.op \in {"none", "PeopleUpdate"} =>
                \A k \in PersonIds, u \in FKPeopleUpdates :
                    (AllIdle /\ PeopleUpdateBegin(p, k, u)) =>
                        IF \/ ("crash_record_id" \in DOMAIN u
                                 /\ NamesNoRow(u.crash_record_id, CrashIds))
                           \/ ("vehicle_id" \in DOMAIN u
                                 /\ NamesNoRow(u.vehicle_id, VehicleIds))
                        THEN last'.status = 404 /\ Tables' = Tables
                        ELSE last'.status # 404 ]_vars

-----------------------------------------------------------------------------
(* Truncation: properties                                                  *)

\* x without its seventh decimal, cut toward zero: x in units of 1e-7, the
\* result in units of 1e-6
SixDecimals(x) == IF x < 0 THEN -((-x) \div 10) ELSE x \div 10

\* C28: truncate_coordinates drops the digits after the sixth decimal toward
\* zero for both signs (-87.6298009 gives -87.629800); the result is never
\* farther from zero than the input and differs from it by less than 0.000001.
TruncatesTowardZero ==
    \A p \in Proc :
        req[p].op = "truncate_coordinates" =>
            \A i \in 1..2 :
                LET x == req[p].arg[i]
                    y == req[p].result[i]
                IN  /\ y = SixDecimals(x)
                    /\ Abs(10 * y) <= Abs(x)
                    /\ Abs(x - 10 * y) < 10

-----------------------------------------------------------------------------
(* Missing street attributes: properties                                   *)

\* the requests that differ from d in sending street_no absent or 0 and
\* street_name absent or empty
StreetForms(d) ==
    {[d EXCEPT !.street_no = n, !.street_name = s] :
        n \in {None, Some(0)}, s \in {None, Some(<< >>)}}

\* C29: a Crash create takes a missing street_no as 0 and a missing
\* street_name as the empty string for the ID only: the creates that send
\* street_no absent and street_no 0 compute the same crash_record_id, the one
\* that runs when the other's row is stored is answered AlreadyExists (409)
\* and leaves that row as it is, and a create that stores its row stores the
\* street_no as it was sent (null, not 0).
MissingStreetNoOnlyForId ==
    [][ \A p \in Proc :
          /\ last'.op \in {"none", "CrashesCreate"} =>
                \A d \in StreetInputs :
                    (AllIdle /\ CrashesCreateBegin(p, d, T1, T1)) =>
                        LET id == NewCrash(d).crash_record_id
                        IN  /\ \A e \in StreetForms(d) : NewCrash(e).crash_record_id = id
                            /\ IF \E e \in StreetForms(d) : NewCrash(e) \in crashes
                               THEN last'.status = 409 /\ crashes' = crashes
                               ELSE /\ pc'[p] = "CrashesCreateFlush"
                                    /\ req'[p].row.crash_record_id = id
                                    /\ req'[p].row.street_no = d.street_no
          /\ (pc[p] = "CrashesCreateFlush" /\ pc'[p] = "idle") =>
                /\ last'.status = 201
                /\ crashes' = crashes \cup {req[p].row} ]_vars

\* a create sending street_no 0 has been answered 409 and the row of its ID,
\* created with street_no absent, holds null
ZeroRejectedNullKept ==
    /\ last.op = "CrashesCreate"
    /\ last.status = 409
    /\ \E r \in crashes : /\ Some(r.crash_record_id) = last.key
                          /\ r.street_no = None

====
